---- MODULE Spec2Model ----
(***************************************************************************)
(* HINT navigation system: the router's navigation progress tracking       *)
(* (pi_router.py / pi_navigation_router.py), the single-process live       *)
(* navigation loop (main.py), the relay client's polling primitives        *)
(* (firebase_client.py) and the laptop clients' device loops.              *)
(*                                                                         *)
(* The repository ships several entry points.  The variable prog says      *)
(* which of them is running; each entry point owns its part of the state   *)
(* and leaves the rest at its initial value.                               *)
(*                                                                         *)
(* Geometry.  Positions are points of the equator, given in metres of arc  *)
(* from a reference meridian.  For two points of latitude 0 the Haversine  *)
(* formula of TextMaps.calculate_distance reduces to R * |delta lambda|,   *)
(* the absolute difference of the two arc lengths.                         *)
(***************************************************************************)
EXTENDS Integers, Sequences, FiniteSets, TLC

VARIABLES
    prog,                 \* the entry point that is running
    relay_location,       \* relay value under /user/location (NoLocation: null)
    \* ---- PiNavigationRouter / PiRouter fields
    current_destination,  \* self.current_destination
    current_route,        \* self.current_route
    current_step,         \* self.current_step
    last_location,        \* self.last_location
    \* ---- router location thread (_location_monitor_loop)
    lpc,                  \* position of the location thread
    l_loc,                \* current_location
    l_steps,              \* steps
    l_idx,                \* current_step_idx
    \* ---- router main thread (interactive_mode)
    mpc,                  \* position of the main thread
    m_dest,               \* destination
    m_steps,              \* steps of start_navigation
    \* ---- LiveVoiceNavigation (main.py)
    live_pc,              \* "init", "loop", "done"
    last_spoken_step,     \* self.last_spoken_step
    live_step_idx,        \* current_step_idx of run_live_navigation
    \* ---- relay client polling (firebase_client.py) and client command loops
    relay_command,        \* relay value under /user/command (NoMsg: null)
    sub_last_data,        \* last_data of poll_commands / poll_location
    last_processed_command, \* EnhancedLaptopClient.last_processed_command
    listening,            \* self.listeners['commands'] (subscription), self.is_running (client)
    listen_pc,            \* the polling thread: "polling" or "exited"
    \* ---- client location loops (_location_tracking_loop)
    last_sent_location,   \* last_sent_location
    location_failures,    \* location_failures
    sleep_for,            \* seconds of the sleep that ended the latest tick (0: no tick yet)
    self_current_location, \* self.current_location of the client: the latest fix obtained
    \* ---- observers (history of the run, not program state)
    g_delivered,          \* identities (type, timestamp) handed to the callback / dispatcher
    g_dup,                \* some identity was handed over a second time
    g_pub_count,          \* messages published on the command channel so far
    g_del_count,          \* messages the subscription handed to its callback so far
    g_last_del_idx,       \* position, in publish order, of the latest of them (0: none)
    g_recovery,           \* "none"; "failed": a get of the subscription failed;
                          \* "recovered": a value was delivered after that
    g_run,                \* consecutive ticks of the location loop that obtained no fix
    g_last_ok,            \* position of the latest successful publish
    g_bad_publish,        \* a fix within 10 m of the latest successful publish was published
    g_publish,            \* the latest tick of the location loop: "none" (no tick yet, or no
                          \* fix obtained), "sent", "failed", "skipped" (no publish attempted)
    g_session,            \* number of sessions started so far
    g_status,             \* "Idle", "Navigating", "Arrived", "Stopped"
    g_last_idx,           \* nearest step of the latest fix of this session, -1 if none
    g_prev_idx,           \* nearest step of the fix before it, -1 if none
    g_emitted,            \* the latest fix of this session made the router emit
    g_spoken,             \* steps whose instruction was emitted in this session
    g_respoken,           \* some step's instruction was emitted a second time
    g_near,               \* the latest fix of this session was < 20 m from the destination
    g_lookup_ok,          \* no destination lookup made for that fix has failed
    g_end_ann,            \* end announcements (arrival, stop) since the session started
    g_reads,              \* successful reads of the relay's current location message
    g_handed,             \* times that message was handed to _process_location_update
    g_start_result,       \* how the geocode or route failure of the latest start_navigation
                          \* call reached the user ("none": it had no such failure)
    g_fix_after_end,      \* a fix was handed to location processing after the session ended
    g_nav_handed,         \* times that message was passed to _process_navigation
    \* ---- FirebaseClient and the device objects (start / stop)
    config,               \* FirebaseConfig.config, on the required keys
    is_connected,         \* FirebaseClient.is_connected
    is_running,           \* self.is_running of the device
    dev_pc,               \* position of the thread that calls start_... and stop_...
    threads,              \* position of each background thread of the device
    g_joined,             \* threads stop_... has tested with is_alive() and waited for
    relay_router_status,  \* status message held under /system/router (NoMsg: null)
    relay_client_status,  \* status message held under /system/client (NoMsg: null)
    inflight,             \* per thread, the channel of its outstanding request
    \* ---- a call of TextMaps.find_current_step
    fs_location,          \* current_location
    fs_steps,             \* maneuver locations of steps
    fs_result,            \* the returned index (NotComputed before the call)
    \* ---- a call of a FirebaseClient operation
    op_name,              \* the operation called last ("none": no call yet)
    op_return,            \* how it came back: "True", "False", "None", "message", "raised"
    \* ---- _process_command / _process_location_update of one message
    in_command,           \* the command message read from the relay
    in_location,          \* the location message read from the relay
    g_said,               \* what say() uttered while the message was processed
    proc_pc,              \* the polling loop that read it: "polling", "processed", "crashed"
    \* ---- a call of PiRouter.start_navigation past its route calculation
    sn_pc,                \* "store", "send_navigation_command", "send_voice_command", "returned"
    sn_timestamp,         \* time.time() of its send_navigation_command (0: not called)
    \* ---- listeners of one FirebaseClient (listen_for_..., stop_listeners)
    listeners,            \* self.listeners: the names it holds (each with the value True)
    poll_threads,         \* per channel and start order, the position of the polling thread
    g_stop_polls,         \* per thread, "running" while no stop_listeners call has followed
                          \* its start, else the polls it has finished since that call
    \* ---- a call of NavigationSystem.get_navigation_instruction
    ni_current_location,  \* self.current_location (NoLocation: None)
    ni_destination,       \* self.destination (NoLocation: None)
    ni_result,            \* the returned instruction ("not called" before the call)
    \* ---- GPSServer (gps_server.py)
    srv_current_location, \* self.current_location (NoStored: None)
    srv_last_update,      \* self.last_update
    srv_lock,             \* the handler that holds self.lock (None: free)
    handlers,             \* per request handler thread, its request and its position
    g_posted              \* some POST has stored its location and timestamp

routerVars == <<current_destination, current_route, current_step, last_location,
                lpc, l_loc, l_steps, l_idx, mpc, m_dest, m_steps>>
liveVars == <<live_pc, last_spoken_step, live_step_idx>>
sessionObs == <<g_session, g_status, g_last_idx, g_prev_idx, g_emitted, g_spoken,
                g_respoken, g_near, g_lookup_ok, g_end_ann>>
relayObs == <<g_reads, g_handed>>
callObs == <<g_start_result, g_fix_after_end, g_nav_handed>>
busVars == <<relay_command, sub_last_data, last_processed_command, listening, listen_pc,
             g_delivered, g_dup, g_pub_count, g_del_count, g_last_del_idx, g_recovery>>
clientVars == <<last_sent_location, location_failures, sleep_for, self_current_location,
                g_publish, g_run, g_last_ok,
                g_bad_publish>>
lifeVars == <<config, is_connected, is_running, dev_pc, threads, g_joined>>
statusVars == <<relay_router_status, relay_client_status>>
stepVars == <<fs_location, fs_steps, fs_result>>
opVars == <<op_name, op_return>>
msgVars == <<in_command, in_location, g_said, proc_pc>>
startVars == <<sn_pc, sn_timestamp>>
listenVars == <<listeners, poll_threads, g_stop_polls>>
instrVars == <<ni_current_location, ni_destination, ni_result>>
serverVars == <<srv_current_location, srv_last_update, srv_lock, handlers, g_posted>>
unitVars == <<startVars, listenVars, instrVars, serverVars>>
devVars == <<lifeVars, statusVars, inflight, stepVars, opVars, msgVars, unitVars>>
vars == <<prog, relay_location, routerVars, liveVars, sessionObs, relayObs, busVars,
          clientVars, callObs, devVars>>

----------------------------------------------------------------------------
(* Bounds of the model *)

\* sessions started in one run
MaxSessions == 2
\* polls of one published location message
MaxReads == 2
\* timestamps of the messages written to the command channel
MaxTimestamp == 2
\* value of location_failures up to which the location loop is followed
MaxFailures == 7
\* messages published on the command channel in one run
MaxPublishes == 3

----------------------------------------------------------------------------
(* The world: destinations, routes, positions *)

None == "None"
NoLocation == -1
Infinity == 1000000
ArrivalRadius == 20

Dests == {"A", "B", "C"}

\* TextMaps.geocode on a successful lookup
DestCoords(d) == IF d = "A" THEN 200 ELSE IF d = "B" THEN 100 ELSE 50

\* maneuver locations of the steps of the route the routing service returns;
\* the route to C has a leg without steps
RouteSteps(d) == IF d = "A" THEN <<0, 100, 200>> ELSE IF d = "B" THEN <<0, 100>> ELSE <<>>

NoRoute == [to |-> None, steps |-> <<>>]
RouteTo(d) == [to |-> d, steps |-> RouteSteps(d)]

\* positions the location source reports
Fixes == {0, 50, 100, 160, 190}

calculate_distance(coord1, coord2) ==
    IF coord1 >= coord2 THEN coord1 - coord2 ELSE coord2 - coord1

\* the loop of find_current_step from step i on (i is 0-based, as in the code)
RECURSIVE ScanSteps(_, _, _, _, _)
ScanSteps(loc, steps, i, min_distance, idx) ==
    IF i >= Len(steps) THEN idx
    ELSE LET distance == calculate_distance(loc, steps[i + 1])
         IN  IF distance < min_distance
             THEN ScanSteps(loc, steps, i + 1, distance, i)
             ELSE ScanSteps(loc, steps, i + 1, min_distance, idx)

\* a scan that keeps the last of the nearest steps
RECURSIVE ScanStepsLast(_, _, _, _, _)
ScanStepsLast(loc, steps, i, min_distance, idx) ==
    IF i >= Len(steps) THEN idx
    ELSE LET distance == calculate_distance(loc, steps[i + 1])
         IN  IF distance <= min_distance
             THEN ScanStepsLast(loc, steps, i + 1, distance, i)
             ELSE ScanStepsLast(loc, steps, i + 1, min_distance, idx)
find_current_step_last(current_location, steps) ==
    ScanStepsLast(current_location, steps, 0, Infinity, 0)

find_current_step(current_location, steps) ==
    ScanSteps(current_location, steps, 0, Infinity, 0)

\* TextMaps.geocode: None when the lookup fails
geocode(address, ok) == IF ok THEN DestCoords(address) ELSE NoLocation

----------------------------------------------------------------------------
(* Relay client reads used by the router (firebase_client.py) *)

\* a delivery-once read: nothing once the current message has been handed over
get_latest_location_once(relay, ok) ==
    IF ok /\ relay # NoLocation /\ g_handed = 0 THEN relay ELSE NoLocation

\* FirebaseClient.get_latest_location: the stored value, None when the GET
\* fails or the channel holds no value.  No memory of earlier reads.
get_latest_location(relay, ok) == IF ok /\ relay # NoLocation THEN relay ELSE NoLocation

----------------------------------------------------------------------------
(* Router: PiNavigationRouter (pi_navigation_router.py).  PiRouter          *)
(* (pi_router.py) has the same _process_navigation, start_navigation and   *)
(* _stop_navigation, with firebase.send_voice_command in place of say.     *)

\* the two router classes; interactive_mode exists in PiNavigationRouter only
RouterProgs == {"router", "pi_router"}

\* a location update that goes to navigation whatever the session fields hold
HasActiveNavigation_unguarded == TRUE

\* a test that takes a destination or a route alone for a session
HasActiveNavigation_either == current_destination # None \/ current_route # NoRoute

\* `if self.current_destination and self.current_route`
HasActiveNavigation == current_destination # None /\ current_route # NoRoute

\* a step test that always announces
StepChanged_always(current_step_idx, step) == TRUE

\* `if current_step_idx != self.current_step`
StepChanged(current_step_idx, step) == current_step_idx # step

\* `if dest_coords: ... if distance_to_dest < 20`
WithinArrival(current_location, dest_coords) ==
    /\ dest_coords # NoLocation
    /\ calculate_distance(current_location, dest_coords) < ArrivalRadius

\* the session has ended (arrival or stop) and no later start_navigation has
\* stored anything yet
SessionReleased ==
    /\ g_status \in {"Arrived", "Stopped"}
    /\ mpc \notin {"store_route", "store_step", "announce"}

\* the observers of a session, as a session starts
SessionObsStart ==
    /\ g_status' = "Navigating"
    /\ g_last_idx' = -1 /\ g_prev_idx' = -1
    /\ g_emitted' = FALSE /\ g_near' = FALSE /\ g_lookup_ok' = TRUE
    /\ g_spoken' = {} /\ g_respoken' = FALSE
    /\ g_end_ann' = 0
    /\ g_fix_after_end' = FALSE

\* the other device publishes a position: PUT overwrites /user/location
ClientPublish(fix) ==
    /\ prog \in RouterProgs
    /\ relay_location' = fix
    /\ g_reads' = 0 /\ g_handed' = 0 /\ g_nav_handed' = 0
    /\ UNCHANGED <<prog, devVars, busVars, clientVars, g_start_result, g_fix_after_end,
                   routerVars, liveVars, sessionObs>>

\* one tick of _location_monitor_loop up to the call of _process_navigation:
\* get_latest_location, then _process_location_update
LocPoll(ok) ==
    /\ prog \in RouterProgs /\ lpc = "tick"
    /\ g_reads < MaxReads
    /\ g_reads' = IF ok /\ relay_location # NoLocation THEN g_reads + 1 ELSE g_reads
    /\ LET location_data == get_latest_location(relay_location, ok)
       IN  IF location_data # NoLocation
           THEN /\ g_handed' = g_handed + 1
                /\ last_location' = location_data
                /\ g_emitted' = FALSE
                /\ g_fix_after_end' =
                       (g_fix_after_end \/ SessionReleased)
                /\ g_nav_handed' = IF HasActiveNavigation THEN g_nav_handed + 1
                                   ELSE g_nav_handed
                /\ IF HasActiveNavigation
                   THEN /\ lpc' = "nav"
                        /\ l_loc' = location_data
                        /\ g_near' = (calculate_distance(location_data,
                                          DestCoords(current_destination)) < ArrivalRadius)
                        /\ g_lookup_ok' = TRUE
                   ELSE /\ g_near' = FALSE /\ g_lookup_ok' = TRUE
                        /\ UNCHANGED <<lpc, l_loc>>
           ELSE UNCHANGED <<g_handed, last_location, g_emitted, lpc, l_loc, g_near, g_lookup_ok,
                            g_fix_after_end, g_nav_handed>>
    /\ UNCHANGED <<prog, devVars, busVars, clientVars, g_start_result,
                   relay_location, current_destination, current_route, current_step,
                   l_steps, l_idx, mpc, m_dest, m_steps, liveVars,
                   g_session, g_status, g_last_idx, g_prev_idx, g_spoken, g_respoken,
                   g_end_ann>>

\* _process_navigation: the early returns and find_current_step
LocNavEnter ==
    /\ prog \in RouterProgs /\ lpc = "nav"
    /\ IF current_route = NoRoute \/ Len(current_route.steps) = 0
       THEN /\ lpc' = "tick" /\ l_loc' = NoLocation
            /\ UNCHANGED <<l_steps, l_idx, g_last_idx, g_prev_idx>>
       ELSE /\ l_steps' = current_route.steps
            /\ l_idx' = find_current_step(l_loc, current_route.steps)
            /\ g_prev_idx' = g_last_idx
            /\ g_last_idx' = l_idx'
            /\ lpc' = "cmp"
            /\ UNCHANGED l_loc
    /\ UNCHANGED <<prog, devVars, busVars, clientVars, callObs,
                   relay_location, current_destination, current_route, current_step,
                   last_location, mpc, m_dest, m_steps, liveVars,
                   g_session, g_status, g_emitted, g_spoken, g_respoken, g_near, g_lookup_ok,
                   g_end_ann, relayObs>>

\* _process_navigation: the step test and the store of self.current_step
LocCompare ==
    /\ prog \in RouterProgs /\ lpc = "cmp"
    /\ IF StepChanged(l_idx, current_step)
       THEN /\ current_step' = l_idx
            /\ lpc' = "say"
            /\ UNCHANGED <<l_loc, l_steps, l_idx>>
       ELSE /\ lpc' = "tick"
            /\ l_loc' = NoLocation /\ l_steps' = <<>> /\ l_idx' = 0
            /\ UNCHANGED current_step
    /\ UNCHANGED <<prog, devVars, busVars, clientVars, callObs,
                   relay_location, current_destination, current_route,
                   last_location, mpc, m_dest, m_steps, liveVars, sessionObs, relayObs>>

\* _process_navigation: say(instruction) of the step just stored
LocSay ==
    /\ prog \in RouterProgs /\ lpc = "say"
    /\ g_emitted' = TRUE
    /\ g_respoken' = (g_respoken \/ l_idx \in g_spoken)
    /\ g_spoken' = g_spoken \cup {l_idx}
    /\ lpc' = "coords"
    /\ UNCHANGED <<prog, devVars, busVars, clientVars, callObs,
                   relay_location, current_destination, current_route, current_step,
                   last_location, l_loc, l_steps, l_idx, mpc, m_dest, m_steps, liveVars,
                   g_session, g_status, g_last_idx, g_prev_idx, g_near, g_lookup_ok, g_end_ann,
                   relayObs>>

\* _process_navigation: _get_destination_coords and the arrival test
LocCoords(ok) ==
    /\ prog \in RouterProgs /\ lpc = "coords"
    /\ LET dest_coords == IF current_destination = None THEN NoLocation
                          ELSE geocode(current_destination, ok)
       IN  IF WithinArrival(l_loc, dest_coords)
           THEN lpc' = "arrive" /\ UNCHANGED <<l_loc, l_steps, l_idx>>
           ELSE /\ lpc' = "tick"
                /\ l_loc' = NoLocation /\ l_steps' = <<>> /\ l_idx' = 0
    /\ g_lookup_ok' = (g_lookup_ok /\ (current_destination = None \/ ok))
    /\ UNCHANGED <<prog, devVars, busVars, clientVars, callObs,
                   relay_location, current_destination, current_route, current_step,
                   last_location, mpc, m_dest, m_steps, liveVars,
                   g_session, g_status, g_last_idx, g_prev_idx, g_emitted, g_spoken,
                   g_respoken, g_near, g_end_ann, relayObs>>

\* _process_navigation: say("You have arrived at your destination!")
LocArrive ==
    /\ prog \in RouterProgs /\ lpc = "arrive"
    /\ g_emitted' = TRUE
    /\ g_end_ann' = g_end_ann + 1
    /\ lpc' = "stop"
    /\ UNCHANGED <<prog, devVars, busVars, clientVars, callObs,
                   relay_location, current_destination, current_route, current_step,
                   last_location, l_loc, l_steps, l_idx, mpc, m_dest, m_steps, liveVars,
                   g_session, g_status, g_last_idx, g_prev_idx, g_spoken, g_respoken,
                   g_near, g_lookup_ok, relayObs>>

\* _process_navigation: self._stop_navigation() after the arrival announcement
LocStop ==
    /\ prog \in RouterProgs /\ lpc = "stop"
    /\ current_destination' = None
    /\ current_route' = NoRoute
    /\ current_step' = 0
    /\ g_status' = "Arrived"
    /\ g_last_idx' = -1 /\ g_prev_idx' = -1
    /\ lpc' = "tick"
    /\ l_loc' = NoLocation /\ l_steps' = <<>> /\ l_idx' = 0
    /\ UNCHANGED <<prog, devVars, busVars, clientVars, callObs,
                   relay_location, last_location, mpc, m_dest, m_steps, liveVars,
                   g_session, g_emitted, g_spoken, g_respoken, g_near, g_lookup_ok, g_end_ann,
                   relayObs>>

\* a geocode or route failure of start_navigation is spoken (say) by
\* PiNavigationRouter and only printed by PiRouter
FailureAnnounced(p) == p = "router"

\* interactive_mode choice 1 and start_navigation up to its stores: the
\* guards on last_location, geocode and get_route
MainStart(destination, geo_ok, route_ok) ==
    /\ prog \in RouterProgs /\ mpc = "menu"
    /\ g_session < MaxSessions
    /\ IF last_location # NoLocation /\ geo_ok /\ route_ok
       THEN /\ m_dest' = destination
            /\ mpc' = "store_dest"
            /\ g_session' = g_session + 1
            /\ g_start_result' = "none"
       ELSE /\ g_start_result' = IF last_location = NoLocation THEN "none"
                                 ELSE IF FailureAnnounced(prog) THEN "failed_announced"
                                 ELSE "failed_silent"
            /\ UNCHANGED <<m_dest, mpc, g_session>>
    /\ UNCHANGED <<prog, devVars, busVars, clientVars, g_fix_after_end, g_nav_handed,
                   relay_location, current_destination, current_route, current_step,
                   last_location, lpc, l_loc, l_steps, l_idx, m_steps, liveVars,
                   g_status, g_last_idx, g_prev_idx, g_emitted, g_spoken, g_respoken,
                   g_near, g_lookup_ok, g_end_ann, relayObs>>

\* start_navigation: self.current_destination = destination
MainStoreDest ==
    /\ prog \in RouterProgs /\ mpc = "store_dest"
    /\ current_destination' = m_dest
    /\ SessionObsStart
    /\ mpc' = "store_route"
    /\ UNCHANGED <<prog, devVars, busVars, clientVars, g_start_result, g_nav_handed,
                   relay_location, current_route, current_step, last_location,
                   lpc, l_loc, l_steps, l_idx, m_dest, m_steps, liveVars, g_session,
                   relayObs>>

\* start_navigation: self.current_route = route_data['routes'][0]
MainStoreRoute ==
    /\ prog \in RouterProgs /\ mpc = "store_route"
    /\ current_route' = RouteTo(m_dest)
    /\ g_last_idx' = -1 /\ g_prev_idx' = -1
    /\ mpc' = "store_step"
    /\ UNCHANGED <<prog, devVars, busVars, clientVars, callObs,
                   relay_location, current_destination, current_step, last_location,
                   lpc, l_loc, l_steps, l_idx, m_dest, m_steps, liveVars,
                   g_session, g_status, g_emitted, g_spoken, g_respoken, g_near, g_lookup_ok,
                   g_end_ann, relayObs>>

\* start_navigation: self.current_step = 0, then the read of self.current_route
\* for the route summary (a None route raises into interactive_mode's handler)
MainStoreStep ==
    /\ prog \in RouterProgs /\ mpc = "store_step"
    /\ current_step' = 0
    /\ IF current_route = NoRoute
       THEN mpc' = "menu" /\ m_dest' = None /\ UNCHANGED m_steps
       ELSE mpc' = "announce" /\ m_steps' = current_route.steps /\ UNCHANGED m_dest
    /\ g_last_idx' = -1 /\ g_prev_idx' = -1
    /\ UNCHANGED <<prog, devVars, busVars, clientVars, callObs,
                   relay_location, current_destination, current_route, last_location,
                   lpc, l_loc, l_steps, l_idx, liveVars,
                   g_session, g_status, g_emitted, g_spoken, g_respoken, g_near, g_lookup_ok,
                   g_end_ann, relayObs>>

\* start_navigation: say(summary) and the instruction of steps[0]
MainAnnounce ==
    /\ prog \in RouterProgs /\ mpc = "announce"
    /\ IF Len(m_steps) > 0
       THEN /\ g_respoken' = (g_respoken \/ 0 \in g_spoken)
            /\ g_spoken' = g_spoken \cup {0}
       ELSE UNCHANGED <<g_spoken, g_respoken>>
    /\ mpc' = "menu" /\ m_dest' = None /\ m_steps' = <<>>
    /\ UNCHANGED <<prog, devVars, busVars, clientVars, callObs,
                   relay_location, current_destination, current_route, current_step,
                   last_location, lpc, l_loc, l_steps, l_idx, liveVars,
                   g_session, g_status, g_last_idx, g_prev_idx, g_emitted, g_near, g_lookup_ok,
                   g_end_ann, relayObs>>

\* interactive_mode choice 2: `if self.current_destination`
MainStopCheck ==
    /\ prog = "router" /\ mpc = "menu"
    /\ current_destination # None
    /\ mpc' = "stopping"
    /\ UNCHANGED <<prog, devVars, busVars, clientVars, callObs,
                   relay_location, current_destination, current_route, current_step,
                   last_location, lpc, l_loc, l_steps, l_idx, m_dest, m_steps, liveVars,
                   sessionObs, relayObs>>

\* interactive_mode choice 2: self._stop_navigation()
MainStop ==
    /\ prog = "router" /\ mpc = "stopping"
    /\ current_destination' = None
    /\ current_route' = NoRoute
    /\ current_step' = 0
    /\ g_status' = "Stopped"
    /\ g_last_idx' = -1 /\ g_prev_idx' = -1
    /\ g_emitted' = FALSE /\ g_near' = FALSE /\ g_lookup_ok' = TRUE
    /\ mpc' = "say_stopped"
    /\ UNCHANGED <<prog, devVars, busVars, clientVars, callObs,
                   relay_location, last_location, lpc, l_loc, l_steps, l_idx,
                   m_dest, m_steps, liveVars, g_session, g_spoken, g_respoken, g_end_ann,
                   relayObs>>

\* interactive_mode choice 2: say("Navigation stopped")
MainSayStopped ==
    /\ prog = "router" /\ mpc = "say_stopped"
    /\ g_end_ann' = g_end_ann + 1
    /\ mpc' = "menu"
    /\ UNCHANGED <<prog, devVars, busVars, clientVars, callObs,
                   relay_location, current_destination, current_route, current_step,
                   last_location, lpc, l_loc, l_steps, l_idx, m_dest, m_steps, liveVars,
                   g_session, g_status, g_last_idx, g_prev_idx, g_emitted, g_spoken,
                   g_respoken, g_near, g_lookup_ok, relayObs>>

LocStep ==
    \/ \E ok \in BOOLEAN : LocPoll(ok)
    \/ LocNavEnter
    \/ LocCompare
    \/ LocSay
    \/ \E ok \in BOOLEAN : LocCoords(ok)
    \/ LocArrive
    \/ LocStop

MainStep ==
    \/ \E d \in Dests, geo_ok \in BOOLEAN, route_ok \in BOOLEAN : MainStart(d, geo_ok, route_ok)
    \/ MainStoreDest
    \/ MainStoreRoute
    \/ MainStoreStep
    \/ MainAnnounce
    \/ MainStopCheck
    \/ MainStop
    \/ MainSayStopped

\* no call of the location thread's handler is in progress
LocIdle == lpc = "tick"
\* no call of the main thread's handlers is in progress
MainIdle == mpc = "menu"

----------------------------------------------------------------------------
(* LiveVoiceNavigation.run_live_navigation (main.py): the single-process    *)
(* deployment.  destination and steps are locals of the call (m_dest,      *)
(* m_steps); dest_coords is the geocode result obtained once at the start. *)

\* `if current_step_idx != self.last_spoken_step: should_speak = True`
ShouldSpeak(current_step_idx, spoken) == current_step_idx # spoken

\* run_live_navigation up to the loop: geocode, get_current_location, get_route
LiveStart(destination, geo_ok, loc_ok, route_ok) ==
    /\ prog = "live" /\ live_pc = "init"
    /\ IF geo_ok /\ loc_ok /\ route_ok
       THEN /\ m_dest' = destination
            /\ m_steps' = RouteSteps(destination)
            /\ live_step_idx' = 0
            /\ last_spoken_step' = -1
            /\ live_pc' = "loop"
            /\ g_session' = g_session + 1
            /\ SessionObsStart
       ELSE /\ live_pc' = "done"
            /\ UNCHANGED <<m_dest, m_steps, live_step_idx, last_spoken_step, sessionObs,
                           g_fix_after_end>>
    /\ UNCHANGED <<prog, devVars, busVars, clientVars, g_start_result, g_nav_handed,
                   relay_location, current_destination, current_route, current_step,
                   last_location, lpc, l_loc, l_steps, l_idx, mpc, relayObs>>

\* one iteration of the while loop of run_live_navigation
LiveTick(current_location) ==
    /\ prog = "live" /\ live_pc = "loop"
    /\ IF ~(live_step_idx < Len(m_steps))
       THEN /\ live_pc' = "done"
            /\ UNCHANGED <<live_step_idx, last_spoken_step, g_status, g_last_idx,
                           g_prev_idx, g_emitted, g_spoken, g_respoken, g_near, g_lookup_ok, g_end_ann>>
       ELSE IF current_location = NoLocation
       THEN UNCHANGED <<live_pc, live_step_idx, last_spoken_step, g_status, g_last_idx,
                        g_prev_idx, g_emitted, g_spoken, g_respoken, g_near, g_lookup_ok, g_end_ann>>
       ELSE IF calculate_distance(current_location, DestCoords(m_dest)) < ArrivalRadius
       THEN /\ live_pc' = "done"
            /\ g_near' = TRUE /\ g_lookup_ok' = TRUE
            /\ g_emitted' = TRUE
            /\ g_end_ann' = g_end_ann + 1
            /\ g_status' = "Arrived"
            /\ g_last_idx' = -1 /\ g_prev_idx' = -1
            /\ UNCHANGED <<live_step_idx, last_spoken_step, g_spoken, g_respoken>>
       ELSE LET idx == find_current_step(current_location, m_steps)
            IN  /\ live_step_idx' = idx
                /\ g_near' = FALSE /\ g_lookup_ok' = TRUE
                /\ g_prev_idx' = g_last_idx
                /\ g_last_idx' = idx
                /\ IF ShouldSpeak(idx, last_spoken_step)
                   THEN /\ last_spoken_step' = idx
                        /\ g_emitted' = TRUE
                        /\ g_respoken' = (g_respoken \/ idx \in g_spoken)
                        /\ g_spoken' = g_spoken \cup {idx}
                   ELSE /\ g_emitted' = FALSE
                        /\ UNCHANGED <<last_spoken_step, g_spoken, g_respoken>>
                /\ UNCHANGED <<live_pc, g_status, g_end_ann>>
    /\ UNCHANGED <<prog, devVars, busVars, clientVars, callObs,
                   relay_location, current_destination, current_route, current_step,
                   last_location, lpc, l_loc, l_steps, l_idx, mpc, m_dest, m_steps,
                   g_session, relayObs>>

\* KeyboardInterrupt inside the loop: speak("Navigation stopped")
LiveInterrupt ==
    /\ prog = "live" /\ live_pc = "loop"
    /\ live_pc' = "done"
    /\ g_status' = "Stopped"
    /\ g_end_ann' = g_end_ann + 1
    /\ g_emitted' = FALSE /\ g_near' = FALSE /\ g_lookup_ok' = TRUE
    /\ g_last_idx' = -1 /\ g_prev_idx' = -1
    /\ UNCHANGED <<prog, devVars, busVars, clientVars, callObs,
                   relay_location, routerVars, live_step_idx, last_spoken_step,
                   g_session, g_spoken, g_respoken, relayObs>>

LiveStep ==
    \/ \E d \in Dests, geo_ok \in BOOLEAN, loc_ok \in BOOLEAN, route_ok \in BOOLEAN :
           LiveStart(d, geo_ok, loc_ok, route_ok)
    \/ \E fix \in Fixes \cup {NoLocation} : LiveTick(fix)
    \/ LiveInterrupt

----------------------------------------------------------------------------
(* Messages of the command channel.  A message is its type, its timestamp   *)
(* and its payload (the "data" object); NoMsg is the JSON null of an empty *)
(* channel.                                                                *)

MsgTypes == {"voice_command", "navigation_start"}
Payloads == {"p", "q"}
Msgs == [type : MsgTypes, timestamp : 1..MaxTimestamp, payload : Payloads]
NoMsg == [type |-> None, timestamp |-> 0, payload |-> None]

\* the (type, timestamp) identity of a message
Identity(m) == <<m.type, m.timestamp>>

\* f"{command_data.get('type', '')}_{command_data.get('timestamp', 0)}"
CommandId(command_data) == <<command_data.type, command_data.timestamp>>
NoCommandId == <<None, 0>>

\* FirebaseClient.get_latest_command: the stored value, None when the GET fails
\* or the channel holds no value
get_latest_command(relay, ok) == IF ok /\ relay # NoMsg THEN relay ELSE NoMsg

\* a test that takes every value read for a new one
IsNewData_any(data, last_data) == data # NoMsg

\* `if data and data != last_data` of poll_commands / poll_location
IsNewData(data, last_data) == data # NoMsg /\ data # last_data

\* `if command_id != self.last_processed_command`
IsNewCommand(command_id, processed) == command_id # processed

\* a message is handed to the callback (subscription) or to _process_command
Deliver(m) ==
    /\ g_dup' = (g_dup \/ Identity(m) \in g_delivered)
    /\ g_delivered' = g_delivered \cup {Identity(m)}

CommandProgs == {"subscribe", "laptop_cmd", "enhanced_cmd"}

\* a polling loop whose error handler ends the loop
AfterPollError_fatal(pc) == "exited"

\* `except Exception as e: print(...); time.sleep(5)` inside the while loop:
\* the error is logged and the loop goes on
AfterPollError(pc) == pc

\* a producer overwrites /user/command (send_command, send_voice_command,
\* send_navigation_command: one PUT of the whole message)
RelayPut(m) ==
    /\ prog \in CommandProgs
    /\ g_pub_count < MaxPublishes
    /\ relay_command' = m
    /\ g_pub_count' = g_pub_count + 1
    /\ UNCHANGED <<prog, devVars, relay_location, routerVars, liveVars, sessionObs, relayObs, callObs,
                   sub_last_data, last_processed_command, listening, listen_pc,
                   g_delivered, g_dup, g_del_count, g_last_del_idx, g_recovery, clientVars>>

\* stop_listeners (subscription) / stop_client (client loops): the flag the
\* polling loop tests is cleared
StopListeners ==
    /\ prog \in CommandProgs
    /\ listening
    /\ listening' = FALSE
    /\ UNCHANGED <<prog, devVars, relay_location, routerVars, liveVars, sessionObs, relayObs, callObs,
                   relay_command, sub_last_data, last_processed_command, listen_pc,
                   g_delivered, g_dup, g_pub_count, g_del_count, g_last_del_idx, g_recovery, clientVars>>

\* one tick of poll_commands (listen_for_commands); poll_location
\* (listen_for_location_updates) is the same loop on /user/location.  A failed
\* GET raises into the loop's own handler.
SubPoll(ok) ==
    /\ prog = "subscribe" /\ listen_pc = "polling"
    /\ IF ~listening
       THEN /\ listen_pc' = "exited"
            /\ UNCHANGED <<sub_last_data, g_delivered, g_dup, g_del_count, g_last_del_idx,
                           g_recovery>>
       ELSE IF ~ok
       THEN /\ listen_pc' = AfterPollError(listen_pc)
            /\ g_recovery' = "failed"
            /\ UNCHANGED <<sub_last_data, g_delivered, g_dup, g_del_count, g_last_del_idx>>
       ELSE IF IsNewData(relay_command, sub_last_data)
       THEN /\ Deliver(relay_command)
            /\ g_del_count' = g_del_count + 1
            /\ g_last_del_idx' = g_pub_count
            /\ g_recovery' = IF g_recovery = "failed" THEN "recovered" ELSE g_recovery
            /\ sub_last_data' = relay_command
            /\ UNCHANGED listen_pc
       ELSE UNCHANGED <<listen_pc, sub_last_data, g_delivered, g_dup, g_del_count,
                        g_last_del_idx, g_recovery>>
    /\ UNCHANGED <<prog, devVars, relay_location, routerVars, liveVars, sessionObs, relayObs, callObs,
                   relay_command, last_processed_command, listening, g_pub_count, clientVars>>

\* one tick of LaptopClient._command_listening_loop; get_latest_command
\* catches a failed GET itself and returns None
LaptopCommandPoll(ok) ==
    /\ prog = "laptop_cmd" /\ listen_pc = "polling"
    /\ IF ~listening
       THEN listen_pc' = "exited" /\ UNCHANGED <<g_delivered, g_dup>>
       ELSE LET command_data == get_latest_command(relay_command, ok)
            IN  /\ IF command_data # NoMsg
                   THEN Deliver(command_data)
                   ELSE UNCHANGED <<g_delivered, g_dup>>
                /\ UNCHANGED listen_pc
    /\ UNCHANGED <<prog, devVars, relay_location, routerVars, liveVars, sessionObs, relayObs, callObs,
                   relay_command, sub_last_data, last_processed_command, listening,
                   g_pub_count, g_del_count, g_last_del_idx, g_recovery, clientVars>>

\* one tick of EnhancedLaptopClient._command_listening_loop
\* (SimpleLaptopClient has the same loop)
EnhancedCommandPoll(ok) ==
    /\ prog \in {"enhanced_cmd", "PiRouter_start_navigation"} /\ listen_pc = "polling"
    /\ IF ~listening
       THEN /\ listen_pc' = "exited"
            /\ UNCHANGED <<last_processed_command, g_delivered, g_dup>>
       ELSE LET command_data == get_latest_command(relay_command, ok)
            IN  /\ IF command_data # NoMsg
                      /\ IsNewCommand(CommandId(command_data), last_processed_command)
                   THEN /\ Deliver(command_data)
                        /\ last_processed_command' = CommandId(command_data)
                   ELSE UNCHANGED <<last_processed_command, g_delivered, g_dup>>
                /\ UNCHANGED listen_pc
    /\ UNCHANGED <<prog, devVars, relay_location, routerVars, liveVars, sessionObs, relayObs, callObs,
                   relay_command, sub_last_data, listening,
                   g_pub_count, g_del_count, g_last_del_idx, g_recovery, clientVars>>

BusStep ==
    \/ \E m \in Msgs : RelayPut(m)
    \/ \E ok \in BOOLEAN : SubPoll(ok)
    \/ \E ok \in BOOLEAN : LaptopCommandPoll(ok)
    \/ \E ok \in BOOLEAN : EnhancedCommandPoll(ok)
    \/ StopListeners

----------------------------------------------------------------------------
(* Client location loops *)

MovementThreshold == 10
FailureLimit == 5
BackoffInterval == 30
UpdateInterval == 5

\* positions the client's location source reports
ClientFixes == {0, 3, 10, 12}

\* movement measured against the fix of the previous tick
ShouldSend_previous_fix(sent, current_location) ==
    \/ sent = NoLocation
    \/ calculate_distance(self_current_location, current_location) > MovementThreshold

\* should_send: True when nothing was sent yet, else distance > 10
ShouldSend(sent, current_location) ==
    sent = NoLocation \/ calculate_distance(sent, current_location) > MovementThreshold

\* `if location_failures > 5`
BackoffDue(failures) == failures > FailureLimit

\* the publish call of this tick, seen from outside
PublishObs(current_location, success) ==
    /\ g_bad_publish' = (g_bad_publish \/
                            (g_last_ok # NoLocation /\
                             calculate_distance(g_last_ok, current_location)
                                 <= MovementThreshold))
    /\ g_last_ok' = IF success THEN current_location ELSE g_last_ok

\* a loop that records every attempted publish as sent
SentAfter_attempt(sent, current_location, success) == current_location

\* `if success: last_sent_location = current_location`
SentAfter(sent, current_location, success) == IF success THEN current_location ELSE sent

\* one iteration of EnhancedLaptopClient._location_tracking_loop
\* (GPSLaptopClient and SimpleLaptopClient have the same loop)
EnhancedLocationTick(current_location, success) ==
    /\ prog = "enhanced_loc"
    /\ location_failures < MaxFailures
    /\ IF current_location # NoLocation
       THEN /\ g_run' = 0
            /\ self_current_location' = current_location
            /\ sleep_for' = UpdateInterval
            /\ IF ShouldSend(last_sent_location, current_location)
               THEN /\ PublishObs(current_location, success)
                    /\ g_publish' = IF success THEN "sent" ELSE "failed"
                    /\ last_sent_location' =
                           SentAfter(last_sent_location, current_location, success)
                    /\ IF success
                       THEN /\ relay_location' = current_location
                            /\ location_failures' = 0
                       ELSE /\ location_failures' = location_failures + 1
                            /\ UNCHANGED relay_location
               ELSE /\ g_publish' = "skipped"
                    /\ UNCHANGED <<relay_location, last_sent_location, location_failures,
                                   g_last_ok, g_bad_publish>>
       ELSE /\ g_run' = g_run + 1
            /\ g_publish' = "none"
            /\ UNCHANGED self_current_location
            /\ location_failures' = location_failures + 1
            /\ sleep_for' = IF BackoffDue(location_failures + 1)
                            THEN BackoffInterval ELSE UpdateInterval
            /\ UNCHANGED <<relay_location, last_sent_location, g_last_ok, g_bad_publish>>
    /\ UNCHANGED <<prog, devVars, routerVars, liveVars, sessionObs, relayObs, callObs, busVars>>

\* one iteration of LaptopClient._location_tracking_loop
LaptopLocationTick(current_location, success) ==
    /\ prog = "laptop_loc"
    /\ IF current_location # NoLocation
       THEN /\ PublishObs(current_location, success)
            /\ self_current_location' = current_location
            /\ g_publish' = IF success THEN "sent" ELSE "failed"
            /\ relay_location' = IF success THEN current_location ELSE relay_location
       ELSE /\ g_publish' = "none"
            /\ UNCHANGED <<relay_location, self_current_location, g_last_ok, g_bad_publish>>
    /\ sleep_for' = UpdateInterval
    /\ UNCHANGED <<prog, devVars, routerVars, liveVars, sessionObs, relayObs, callObs, busVars,
                   last_sent_location, location_failures, g_run>>

ClientStep ==
    \/ \E fix \in ClientFixes \cup {NoLocation}, success \in BOOLEAN :
           EnhancedLocationTick(fix, success)
    \/ \E fix \in ClientFixes \cup {NoLocation}, success \in BOOLEAN :
           LaptopLocationTick(fix, success)

----------------------------------------------------------------------------
(* FirebaseClient (firebase_client.py, firebase_config.py): the             *)
(* configuration test, the relay's four channels and the send_... and        *)
(* get_latest_... operations.  The relay answers a request with one of       *)
(* Outcomes; an operation comes back with "True" / "False" (send_...), with  *)
(* "None" / "message" (get_latest_...), or it raises.                        *)

\* DatabasePaths
USER_LOCATION == "/user/location"
USER_COMMAND == "/user/command"
ROUTER_STATUS == "/system/router"
CLIENT_STATUS == "/system/client"

\* `required_keys` of is_configured
required_keys == {"apiKey", "authDomain", "databaseURL", "projectId"}

\* a key the configuration file does not hold / a value the user has filled in
Absent == "<absent>"
Filled == "<filled>"

\* FirebaseConfig._get_default_config, on the required keys
DefaultConfig ==
    [apiKey |-> "your-api-key-here",
     authDomain |-> "your-project-id.firebaseapp.com",
     databaseURL |-> "https://your-project-id-default-rtdb.firebaseio.com/",
     projectId |-> "your-project-id"]

\* f"your-{key.replace('Id', '-id').replace('Key', '-key')}-here", key by key:
\* 'apiKey' -> 'api-key', 'projectId' -> 'project-id', the other two keys
\* hold neither 'Id' nor 'Key' and stay as they are
PlaceholderOf ==
    [apiKey |-> "your-api-key-here",
     authDomain |-> "your-authDomain-here",
     databaseURL |-> "your-databaseURL-here",
     projectId |-> "your-project-id-here"]

\* FirebaseConfig.is_configured
is_configured(cfg) ==
    \A key \in required_keys : cfg[key] # Absent /\ cfg[key] # PlaceholderOf[key]

\* a configuration file: each required key is missing, left at its default or
\* filled in
Configs ==
    {cfg \in [required_keys -> {Absent, Filled} \cup {DefaultConfig[k] : k \in required_keys}] :
        \A k \in required_keys : cfg[k] \in {Absent, Filled, DefaultConfig[k]}}
ConfiguredConfig == [k \in required_keys |-> Filled]

\* FirebaseClient.is_ready: is_connected and hasattr(self, 'database_url');
\* _initialize_firebase sets database_url exactly when is_configured() holds
is_ready == is_connected /\ is_configured(config)

\* ("late_timeout": the answer timed out after the relay had taken the request)
Outcomes == {"success", "network_failure", "timeout", "late_timeout", "http_error",
             "malformed_response"}
Raised == "raised"

\* a call whose exception is not caught
TryExcept_reraise(body, handled) == body

\* try: ... except Exception as e: print(...); return <handled>
TryExcept(body, handled) == IF body = Raised THEN handled ELSE body

\* requests.put(url, json=message, timeout=10); response.raise_for_status();
\* return True.  The body of the answer is not read.
PutBody(outcome) ==
    IF outcome \in {"network_failure", "timeout", "late_timeout", "http_error"}
    THEN Raised ELSE "True"

\* requests.get(url, timeout=5); response.raise_for_status();
\* data = response.json(); return data if data else None
GetBody(outcome, stored_empty) ==
    IF outcome # "success" THEN Raised
    ELSE IF stored_empty THEN "None" ELSE "message"

\* a send_... operation: `if not self.is_ready(): return False`, then the try
send_result(ready, outcome) ==
    IF ~ready THEN "False" ELSE TryExcept(PutBody(outcome), "False")

\* a get_latest_... operation: `if not self.is_ready(): return None`, then the try
get_result(ready, outcome, stored_empty) ==
    IF ~ready THEN "None" ELSE TryExcept(GetBody(outcome, stored_empty), "None")

\* the relay has stored the value of a PUT: it answered the request, or the
\* answer timed out after the relay had taken the value
Applied(outcome) == outcome \in {"success", "malformed_response", "late_timeout"}

\* MessageTemplates.status_message, without device_type and details
status_message(status, timestamp) ==
    [type |-> "status_update", timestamp |-> timestamp, payload |-> status]

\* a status path that is the command channel
StatusPath_command(device_type) == USER_COMMAND

\* send_status_update: `if device_type == "router"` ROUTER_STATUS else CLIENT_STATUS
StatusPath(device_type) ==
    IF device_type = "router" THEN ROUTER_STATUS ELSE CLIENT_STATUS

\* PUT <path>.json replaces the value held under path
RelayWrite(path, message) ==
    /\ relay_location' = IF path = USER_LOCATION THEN message ELSE relay_location
    /\ relay_command' = IF path = USER_COMMAND THEN message ELSE relay_command
    /\ relay_router_status' = IF path = ROUTER_STATUS THEN message ELSE relay_router_status
    /\ relay_client_status' = IF path = CLIENT_STATUS THEN message ELSE relay_client_status

RelayKeep ==
    UNCHANGED <<relay_location, relay_command, relay_router_status, relay_client_status>>

\* self.database_url (get_database_url) is the relay's address only when the
\* user has filled in databaseURL
RelayReachable == config.databaseURL = Filled

\* the effect of a send_... operation on the relay
Put(path, message, ready, applied) ==
    IF ready /\ applied /\ RelayReachable THEN RelayWrite(path, message) ELSE RelayKeep

SendOps == {"send_location_update", "send_command", "send_navigation_command",
            "send_voice_command", "send_status_update"}
GetOps == {"get_latest_location", "get_latest_command"}

\* positions and statuses written in the operation calls
SentFixes == {0, 100}
Statuses == {"starting", "stopped"}
DeviceTypes == {"router", "client", "test"}

\* what a send_... call leaves alone besides the relay
SendFrame ==
    UNCHANGED <<prog, unitVars, routerVars, liveVars, sessionObs, relayObs, callObs, clientVars,
                sub_last_data, last_processed_command, listening, listen_pc,
                g_delivered, g_dup, g_pub_count, g_del_count, g_last_del_idx, g_recovery,
                lifeVars, inflight, stepVars, msgVars>>

SendCall(op, path, message, outcome) ==
    /\ prog = "FirebaseClient"
    /\ Put(path, message, is_ready, Applied(outcome))
    /\ op_name' = op
    /\ op_return' = send_result(is_ready, outcome)
    /\ SendFrame

\* FirebaseClient.send_location_update
CallSendLocationUpdate(latitude, outcome) ==
    SendCall("send_location_update", USER_LOCATION, latitude, outcome)

\* FirebaseClient.send_command
CallSendCommand(command_type, data, timestamp, outcome) ==
    SendCall("send_command", USER_COMMAND,
             [type |-> command_type, timestamp |-> timestamp, payload |-> data],
             outcome)

\* FirebaseClient.send_navigation_command
CallSendNavigationCommand(destination, timestamp, outcome) ==
    SendCall("send_navigation_command", USER_COMMAND,
             [type |-> "navigation_start", timestamp |-> timestamp, payload |-> destination],
             outcome)

\* FirebaseClient.send_voice_command
CallSendVoiceCommand(text, timestamp, outcome) ==
    SendCall("send_voice_command", USER_COMMAND,
             [type |-> "voice_command", timestamp |-> timestamp, payload |-> text],
             outcome)

\* FirebaseClient.send_status_update
CallSendStatusUpdate(device_type, status, timestamp, outcome) ==
    SendCall("send_status_update", StatusPath(device_type),
             status_message(status, timestamp), outcome)

\* FirebaseClient.get_latest_location / get_latest_command
CallGetLatest(op, outcome) ==
    /\ prog = "FirebaseClient"
    /\ op \in GetOps
    /\ op_name' = op
    /\ op_return' = get_result(is_ready, outcome,
                               IF op = "get_latest_location"
                               THEN relay_location = NoLocation
                               ELSE relay_command = NoMsg)
    /\ RelayKeep
    /\ SendFrame

FirebaseStep ==
    /\ prog = "FirebaseClient"
    /\ \/ \E fix \in SentFixes, o \in Outcomes :
              CallSendLocationUpdate(fix, o)
       \/ \E m \in Msgs, o \in Outcomes :
              CallSendCommand(m.type, m.payload, m.timestamp, o)
       \/ \E d \in Payloads, ts \in 1..MaxTimestamp, o \in Outcomes :
              CallSendNavigationCommand(d, ts, o)
       \/ \E t \in Payloads, ts \in 1..MaxTimestamp, o \in Outcomes :
              CallSendVoiceCommand(t, ts, o)
       \/ \E dt \in DeviceTypes, st \in Statuses, o \in Outcomes :
              CallSendStatusUpdate(dt, st, 1, o)
       \/ \E op \in GetOps, o \in Outcomes : CallGetLatest(op, o)

----------------------------------------------------------------------------
(* Device lifecycle: start_client / start_router and stop_client /          *)
(* stop_router of EnhancedLaptopClient, LaptopClient, PiRouter and         *)
(* PiNavigationRouter, and the background threads they start.              *)

DeviceProgs == {"EnhancedLaptopClient", "LaptopClient", "PiRouter", "PiNavigationRouter"}
ClientDevices == {"EnhancedLaptopClient", "LaptopClient"}
ThreadNames == {"location", "command"}

\* the threads start_... starts: the clients a location_thread and a
\* command_thread, the routers a location thread
DeviceThreads(p) == IF p \in ClientDevices THEN {"location", "command"} ELSE {"location"}

\* the threads stop_... tests with is_alive() and joins with timeout=2:
\* PiRouter.stop_router joins none (start_router keeps the thread in a local)
JoinedOnStop(p) == IF p = "PiRouter" THEN {} ELSE DeviceThreads(p)

\* the first argument of the device's send_status_update calls
DeviceType(p) == IF p \in ClientDevices THEN "client" ELSE "router"

LifeFrame ==
    UNCHANGED <<prog, unitVars, routerVars, liveVars, sessionObs, relayObs, callObs, clientVars,
                sub_last_data, last_processed_command, listening, listen_pc,
                g_delivered, g_dup, g_pub_count, g_del_count, g_last_del_idx, g_recovery,
                config, inflight, stepVars, opVars, msgVars>>

\* start_client / start_router
StartDevice(outcome) ==
    /\ prog \in DeviceProgs /\ dev_pc = "init"
    /\ IF ~is_ready
       THEN /\ dev_pc' = "start_failed"
            /\ RelayKeep
            /\ UNCHANGED <<is_running, threads>>
       ELSE /\ Put(StatusPath(DeviceType(prog)), status_message("starting", 1), is_ready,
                   Applied(outcome))
            /\ is_running' = TRUE
            /\ threads' = [t \in ThreadNames |->
                              IF t \in DeviceThreads(prog) THEN "test" ELSE "absent"]
            /\ dev_pc' = "started"
    /\ UNCHANGED <<is_connected, g_joined>>
    /\ LifeFrame

\* `while self.is_running:` of a background loop
ThreadTest(t) ==
    /\ prog \in DeviceProgs /\ threads[t] = "test"
    /\ threads' = [threads EXCEPT ![t] = IF is_running THEN "body" ELSE "exited"]
    /\ RelayKeep
    /\ UNCHANGED <<is_connected, is_running, dev_pc, g_joined>>
    /\ LifeFrame

\* the send_... call of a loop body: the location loop of a client publishes
\* its fix (send_location_update), the location loop of a router reports
\* "location_received" (send_status_update); the command loop only reads
ThreadSends(t) == t = "location"

\* one iteration of the loop body up to the end of its time.sleep, or, when
\* the body sends (sends) and its send_... call finds the client ready, up
\* to the PUT of that call
ThreadBody(t, sends) ==
    /\ prog \in DeviceProgs /\ threads[t] = "body"
    /\ threads' = [threads EXCEPT ![t] = IF sends /\ ThreadSends(t) /\ is_ready
                                         THEN "put" ELSE "test"]
    /\ RelayKeep
    /\ UNCHANGED <<is_connected, is_running, dev_pc, g_joined>>
    /\ LifeFrame

\* requests.put of that call (timeout=10), then the rest of the iteration
ThreadPut(t, fix, outcome) ==
    /\ prog \in DeviceProgs /\ threads[t] = "put"
    /\ IF prog \in ClientDevices
       THEN Put(USER_LOCATION, fix, TRUE, Applied(outcome))
       ELSE Put(StatusPath(DeviceType(prog)), status_message("location_received", 1), TRUE,
                Applied(outcome))
    /\ threads' = [threads EXCEPT ![t] = "test"]
    /\ UNCHANGED <<is_connected, is_running, dev_pc, g_joined>>
    /\ LifeFrame

\* stop_client / stop_router: self.is_running = False
StopSignal ==
    /\ prog \in DeviceProgs /\ dev_pc = "started"
    /\ is_running' = FALSE
    /\ dev_pc' = "join"
    /\ RelayKeep
    /\ UNCHANGED <<is_connected, threads, g_joined>>
    /\ LifeFrame

\* `if self.<t>_thread and self.<t>_thread.is_alive(): self.<t>_thread.join(timeout=2)`:
\* the call comes back when the thread has exited or when the two seconds
\* are over, whichever is first; location_thread is joined before command_thread
StopJoin(t) ==
    /\ prog \in DeviceProgs /\ dev_pc = "join"
    /\ t \in JoinedOnStop(prog) \ g_joined
    /\ t = "command" => "location" \in g_joined
    /\ g_joined' = g_joined \cup {t}
    /\ RelayKeep
    /\ UNCHANGED <<is_connected, is_running, dev_pc, threads>>
    /\ LifeFrame

\* self.firebase.send_status_update(<device>, "stopped")
StopStatus(outcome) ==
    /\ prog \in DeviceProgs /\ dev_pc = "join"
    /\ JoinedOnStop(prog) \subseteq g_joined
    /\ Put(StatusPath(DeviceType(prog)), status_message("stopped", 1), is_ready,
           Applied(outcome))
    /\ dev_pc' = "close"
    /\ UNCHANGED <<is_connected, is_running, threads, g_joined>>
    /\ LifeFrame

\* self.firebase.close(): stop_listeners(), is_connected = False
StopClose ==
    /\ prog \in DeviceProgs /\ dev_pc = "close"
    /\ is_connected' = FALSE
    /\ dev_pc' = "stopped"
    /\ RelayKeep
    /\ UNCHANGED <<is_running, threads, g_joined>>
    /\ LifeFrame

DeviceStep ==
    /\ prog \in DeviceProgs
    /\ \/ \E o \in Outcomes : StartDevice(o)
       \/ \E t \in ThreadNames : ThreadTest(t)
       \/ \E t \in ThreadNames, sends \in BOOLEAN : ThreadBody(t, sends)
       \/ \E t \in ThreadNames, fix \in SentFixes, o \in Outcomes : ThreadPut(t, fix, o)
       \/ StopSignal
       \/ \E t \in ThreadNames : StopJoin(t)
       \/ \E o \in Outcomes : StopStatus(o)
       \/ StopClose

----------------------------------------------------------------------------
(* Requests in flight.  Every relay request is a blocking call of the      *)
(* requests library made by the calling thread; no lock is taken around    *)
(* it.                                                                     *)

RequestProgs == {"PiRouter_requests", "EnhancedLaptopClient_requests"}
RequestThreads == {"location", "command", "main"}

\* the channels a thread of the device makes requests on
ThreadRequests(p, t) ==
    IF p = "PiRouter_requests"
    THEN CASE t = "location" -> {USER_LOCATION, USER_COMMAND, ROUTER_STATUS}
           [] t = "main" -> {USER_COMMAND, ROUTER_STATUS}
           [] OTHER -> {}
    ELSE CASE t = "location" -> {USER_LOCATION}
           [] t = "command" -> {USER_COMMAND}
           [] t = "main" -> {USER_COMMAND, USER_LOCATION}
           [] OTHER -> {}

RequestFrame ==
    UNCHANGED <<prog, unitVars, relay_location, routerVars, liveVars, sessionObs, relayObs, callObs,
                clientVars, busVars, lifeVars, statusVars, stepVars, opVars, msgVars>>

\* a thread calls requests.put / requests.get
RequestIssue(t, channel) ==
    /\ prog \in RequestProgs
    /\ inflight[t] = None
    /\ channel \in ThreadRequests(prog, t)
    /\ inflight' = [inflight EXCEPT ![t] = channel]
    /\ RequestFrame

\* the call comes back (answer, error or timeout)
RequestReturn(t) ==
    /\ prog \in RequestProgs
    /\ inflight[t] # None
    /\ inflight' = [inflight EXCEPT ![t] = None]
    /\ RequestFrame

RequestStep ==
    /\ prog \in RequestProgs
    /\ \/ \E t \in RequestThreads,
             ch \in {USER_LOCATION, USER_COMMAND, ROUTER_STATUS, CLIENT_STATUS} :
              RequestIssue(t, ch)
       \/ \E t \in RequestThreads : RequestReturn(t)

----------------------------------------------------------------------------
(* A call of TextMaps.find_current_step on its own: the position and the   *)
(* maneuver locations of the steps are drawn in Init.                      *)

\* longest route and largest coordinate (metres) of the calls
MaxSteps == 3
MaxCoord == 3

NotComputed == -1

StepInputs == UNION {[1..n -> 0..MaxCoord] : n \in 0..MaxSteps}

FindStepCall ==
    /\ prog = "find_current_step"
    /\ fs_result = NotComputed
    /\ fs_result' = find_current_step(fs_location, fs_steps)
    /\ UNCHANGED <<prog, unitVars, relay_location, routerVars, liveVars, sessionObs,
                   relayObs, callObs,
                   clientVars, busVars, lifeVars, statusVars, inflight, opVars, msgVars,
                   fs_location, fs_steps>>

----------------------------------------------------------------------------
(* Processing of one message read from the relay: _process_command of the  *)
(* two laptop clients and _process_location_update of PiRouter.  A JSON    *)
(* object is a record with the set of its keys (keys) and one field per    *)
(* key it can hold; Get is dict.get.  A text is the tuple of its           *)
(* characters.                                                             *)

CommandProcessors == {"EnhancedLaptopClient_commands", "LaptopClient_commands"}
ProcessProgs == CommandProcessors \cup {"PiRouter_locations"}

Get(d, key, default) == IF key \in d.keys THEN d[key] ELSE default

UpperCase == <<"A", "B", "C", "D", "E", "F", "G", "H", "I", "J", "K", "L", "M",
               "N", "O", "P", "Q", "R", "S", "T", "U", "V", "W", "X", "Y", "Z">>
LowerCase == <<"a", "b", "c", "d", "e", "f", "g", "h", "i", "j", "k", "l", "m",
               "n", "o", "p", "q", "r", "s", "t", "u", "v", "w", "x", "y", "z">>

\* str.lower()
LowerChar(c) ==
    IF \E i \in 1..26 : UpperCase[i] = c
    THEN LowerCase[CHOOSE i \in 1..26 : UpperCase[i] = c]
    ELSE c
lower(text) == [i \in 1..Len(text) |-> LowerChar(text[i])]

\* `sub in text`
Contains(sub, text) ==
    \E i \in 0..(Len(text) - Len(sub)) : SubSeq(text, i + 1, i + Len(sub)) = sub

\* "test", "firebase"
str_test == <<"t", "e", "s", "t">>
str_firebase == <<"f", "i", "r", "e", "b", "a", "s", "e">>

\* `"test" in text.lower() and "firebase" in text.lower()`
IsTestCommand(text) ==
    Contains(str_test, lower(text)) /\ Contains(str_firebase, lower(text))

\* "", "Turn left", "Test voice command from Firebase" (test_firebase.py),
\* "FIREBASE TEST", "Test"
Texts ==
    {<<>>,
     <<"T", "u", "r", "n", " ", "l", "e", "f", "t">>,
     <<"T", "e", "s", "t", " ", "v", "o", "i", "c", "e", " ", "c", "o", "m", "m", "a", "n", "d", " ", "f", "r", "o", "m", " ", "F", "i", "r", "e", "b", "a", "s", "e">>,
     <<"F", "I", "R", "E", "B", "A", "S", "E", " ", "T", "E", "S", "T">>,
     <<"T", "e", "s", "t">>}

KnownTypes == {"navigation_start", "navigation_stop", "voice_command", "system_command"}
TypeValues == KnownTypes \cup {"unknown_type"}

\* the "data" object of a command
DataKeys == {"destination", "current_location", "text", "message"}
EmptyData == [keys |-> {}, destination |-> None, current_location |-> {}, text |-> <<>>,
              message |-> ""]
DataInputs ==
    {d \in [keys : SUBSET DataKeys, destination : {None, "A"},
            current_location : SUBSET {"latitude", "longitude"},
            text : Texts, message : {"", "Rerouting"}] :
        /\ ("destination" \in d.keys) = (d.destination # None)
        /\ "current_location" \notin d.keys => d.current_location = {}
        /\ "text" \notin d.keys => d.text = <<>>
        /\ "message" \notin d.keys => d.message = ""}

\* a command message
NoCommand == [keys |-> {}, type |-> None, data |-> EmptyData]
CommandInputs ==
    {c \in [keys : SUBSET {"type", "data"}, type : TypeValues \cup {None}, data : DataInputs] :
        /\ ("type" \in c.keys) = (c.type # None)
        /\ "data" \notin c.keys => c.data = EmptyData}

\* a location message: its "location" object holds a position under the keys
\* it has
NoLocationData == [keys |-> {}, position |-> NoLocation]
LocationInputs ==
    {[keys |-> ks, position |-> fix] : ks \in SUBSET {"latitude", "longitude"},
                                     fix \in SentFixes}

\* what say() utters during one call of a handler
\* (what: "text" for a spoken text, "navigation_started" for f"Navigation
\* started to {arg}", "navigation_stopped", "message" for a system message)
Said(what, text, arg) == [what |-> what, text |-> text, arg |-> arg]
Silent == Said("nothing", <<>>, None)

\* _handle_navigation_start: the print of the position formats
\* current_location.get('latitude', 'N/A') with :.4f, which raises for the
\* default 'N/A'; the exception leaves the handler before say()
handle_navigation_start(data) ==
    LET destination == Get(data, "destination", "Unknown destination")
        current_location == Get(data, "current_location", {})
    IN  IF {"latitude", "longitude"} \subseteq current_location
        THEN Said("navigation_started", <<>>, destination)
        ELSE Silent

\* _handle_navigation_stop
handle_navigation_stop(data) == Said("navigation_stopped", <<>>, None)

\* EnhancedLaptopClient skips the test commands, LaptopClient has no such test
SkipsTestCommands(p) == p = "EnhancedLaptopClient_commands"

\* _handle_voice_command
handle_voice_command(p, data) ==
    LET text == Get(data, "text", <<>>)
    IN  IF text # <<>>
        THEN IF SkipsTestCommands(p) /\ IsTestCommand(text) THEN Silent
             ELSE Said("text", text, None)
        ELSE Silent

\* _handle_system_command
handle_system_command(data) ==
    LET message == Get(data, "message", "")
    IN  IF message # "" THEN Said("message", <<>>, message) ELSE Silent

\* _process_command: the dispatch on command_data.get('type'), inside
\* try / except Exception
process_command(p, cmd) ==
    LET command_type == Get(cmd, "type", None)
        data == Get(cmd, "data", EmptyData)
    IN  CASE command_type = "navigation_start" -> handle_navigation_start(data)
          [] command_type = "navigation_stop" -> handle_navigation_stop(data)
          [] command_type = "voice_command" -> handle_voice_command(p, data)
          [] command_type = "system_command" -> handle_system_command(data)
          [] OTHER -> Silent

ProcessFrame ==
    UNCHANGED <<prog, unitVars, current_destination, current_route, current_step,
                lpc, l_loc, l_steps, l_idx, mpc, m_dest, m_steps,
                liveVars, sessionObs, relayObs, callObs,
                clientVars, busVars, lifeVars, inflight, stepVars, opVars>>

\* the command loop hands a message it has read to _process_command
ProcessCommand(cmd) ==
    /\ prog \in CommandProcessors /\ proc_pc = "polling"
    /\ in_command' = cmd
    /\ g_said' = process_command(prog, cmd)
    /\ proc_pc' = "processed"
    /\ UNCHANGED <<relay_location, statusVars, in_location, last_location>>
    /\ ProcessFrame

\* PiRouter._process_location_update with no destination set:
\* `if lat is None or lng is None: return`, else last_location is stored and
\* the status "location_received" is sent
ProcessLocationUpdate(msg, outcome) ==
    /\ prog = "PiRouter_locations" /\ proc_pc = "polling"
    /\ in_location' = msg
    /\ g_said' = Silent
    /\ proc_pc' = "processed"
    /\ IF {"latitude", "longitude"} \subseteq msg.keys
       THEN /\ last_location' = msg.position
            /\ Put(ROUTER_STATUS, status_message("location_received", 1), is_ready,
                   Applied(outcome))
       ELSE /\ UNCHANGED last_location
            /\ RelayKeep
    /\ UNCHANGED in_command
    /\ ProcessFrame

\* time.sleep(...) and the next turn of the `while self.is_running` loop
ProcessNext ==
    /\ prog \in ProcessProgs /\ proc_pc = "processed"
    /\ proc_pc' = "polling"
    /\ in_command' = NoCommand /\ in_location' = NoLocationData /\ g_said' = Silent
    /\ UNCHANGED <<relay_location, statusVars, last_location>>
    /\ ProcessFrame

ProcessStep ==
    /\ prog \in ProcessProgs
    /\ \/ \E cmd \in CommandInputs : ProcessCommand(cmd)
       \/ \E msg \in LocationInputs, o \in Outcomes :
              ProcessLocationUpdate(msg, o)
       \/ ProcessNext

----------------------------------------------------------------------------
(* PiRouter.start_navigation from "Store navigation data" on (the geocode   *)
(* and the route calculation have succeeded), next to a running client that *)
(* polls /user/command (SimpleLaptopClient._command_listening_loop, the     *)
(* loop of EnhancedCommandPoll).  The two sends of start_navigation are two *)
(* PUTs of the whole value under /user/command; their results are ignored.  *)

StartProg == "PiRouter_start_navigation"

StartFrame ==
    UNCHANGED <<prog, relay_location, last_location, lpc, l_loc, l_steps, l_idx, mpc, m_dest,
                m_steps, liveVars, g_status, g_last_idx, g_prev_idx, g_emitted, g_spoken,
                g_respoken, g_near, g_lookup_ok, g_end_ann, relayObs, callObs, clientVars,
                lifeVars, statusVars, inflight, stepVars, opVars, msgVars, listenVars,
                instrVars, serverVars,
                sub_last_data, last_processed_command, listening, listen_pc,
                g_delivered, g_dup, g_del_count, g_last_del_idx, g_recovery>>

\* MessageTemplates.navigation_command / voice_command
navigation_command(destination, timestamp) ==
    [type |-> "navigation_start", timestamp |-> timestamp, payload |-> destination]
voice_command(text, timestamp) ==
    [type |-> "voice_command", timestamp |-> timestamp, payload |-> text]

\* self.current_destination = destination; self.current_route = ...;
\* self.current_step = 0, in the first call or in a call that follows one that
\* has returned
StartNavStore(destination) ==
    /\ prog = StartProg /\ sn_pc \in {"store", "returned"}
    /\ g_session < MaxSessions
    /\ g_session' = g_session + 1
    /\ current_destination' = destination
    /\ current_route' = RouteTo(destination)
    /\ current_step' = 0
    /\ sn_pc' = "send_navigation_command"
    /\ UNCHANGED <<relay_command, g_pub_count, sn_timestamp>>
    /\ StartFrame

\* `if steps:` before the initial instruction is sent
HasFirstInstruction(steps) == steps # <<>>

\* self.firebase.send_navigation_command(destination, self.last_location)
StartNavSendCommand(timestamp, outcome) ==
    /\ prog = StartProg /\ sn_pc = "send_navigation_command"
    /\ sn_timestamp' = timestamp
    /\ IF Applied(outcome)
       THEN /\ relay_command' = navigation_command(current_destination, timestamp)
            /\ g_pub_count' = g_pub_count + 1
       ELSE UNCHANGED <<relay_command, g_pub_count>>
    /\ sn_pc' = IF HasFirstInstruction(current_route.steps)
                THEN "send_voice_command" ELSE "returned"
    /\ UNCHANGED <<current_destination, current_route, current_step, g_session>>
    /\ StartFrame

\* self.firebase.send_voice_command(instruction); return True
StartNavSendVoice(timestamp, outcome) ==
    /\ prog = StartProg /\ sn_pc = "send_voice_command"
    /\ timestamp >= sn_timestamp
    /\ IF Applied(outcome)
       THEN /\ relay_command' = voice_command("instruction", timestamp)
            /\ g_pub_count' = g_pub_count + 1
       ELSE UNCHANGED <<relay_command, g_pub_count>>
    /\ sn_pc' = "returned"
    /\ UNCHANGED <<current_destination, current_route, current_step, sn_timestamp,
                   g_session>>
    /\ StartFrame

StartStep ==
    /\ prog = StartProg
    /\ \/ \E destination \in Dests : StartNavStore(destination)
       \/ \E timestamp \in 1..MaxTimestamp, outcome \in Outcomes :
              StartNavSendCommand(timestamp, outcome)
       \/ \E timestamp \in 1..MaxTimestamp, outcome \in Outcomes :
              StartNavSendVoice(timestamp, outcome)
       \/ \E ok \in BOOLEAN : EnhancedCommandPoll(ok)

----------------------------------------------------------------------------
(* Listeners of one FirebaseClient: listen_for_location_updates and         *)
(* listen_for_commands each set their flag in self.listeners and start a    *)
(* daemon thread that polls while the flag is there; stop_listeners deletes *)
(* every flag.  The threads are not kept anywhere.                          *)

ListenProg == "FirebaseClient_listeners"

\* listen_... calls made per channel
MaxListens == 2

Channels == {"location", "commands"}

ListenFrame ==
    UNCHANGED <<prog, relay_location, routerVars, liveVars, sessionObs, relayObs, callObs,
                clientVars, busVars, lifeVars, statusVars, inflight, stepVars, opVars,
                msgVars, startVars, instrVars, serverVars>>

\* the polling threads of a channel that have started and not returned
LiveLoops(c) == {i \in 1..MaxListens : poll_threads[c][i] \in {"test", "poll"}}

\* listen_for_location_updates / listen_for_commands on a ready client:
\* self.listeners[name] = True; threading.Thread(...).start()
Listen(c) ==
    /\ prog = ListenProg
    /\ \E i \in 1..MaxListens :
          /\ poll_threads[c][i] = "absent"
          /\ \A j \in 1..(i - 1) : poll_threads[c][j] # "absent"
          /\ poll_threads' = [poll_threads EXCEPT ![c][i] = "test"]
    /\ listeners' = listeners \cup {c}
    /\ UNCHANGED g_stop_polls
    /\ ListenFrame

\* `while self.listeners.get(name, False):`
PollTest(c, i) ==
    /\ prog = ListenProg
    /\ poll_threads[c][i] = "test"
    /\ poll_threads' = [poll_threads EXCEPT ![c][i] = IF c \in listeners THEN "poll"
                                                       ELSE "exited"]
    /\ UNCHANGED <<listeners, g_stop_polls>>
    /\ ListenFrame

\* the body of the loop: the GET, the callback, the sleep (or the handler of
\* a failed GET and its sleep)
PollBody(c, i) ==
    /\ prog = ListenProg
    /\ poll_threads[c][i] = "poll"
    /\ poll_threads' = [poll_threads EXCEPT ![c][i] = "test"]
    /\ g_stop_polls' = [g_stop_polls EXCEPT ![c][i] =
                            IF @ = "running" THEN @
                            ELSE IF @ = "0" THEN "1" ELSE "2 or more"]
    /\ UNCHANGED listeners
    /\ ListenFrame

\* stop_listeners: `for listener_name in list(self.listeners.keys()): del ...`
stop_listeners ==
    /\ prog = ListenProg
    /\ listeners' = {}
    /\ g_stop_polls' = [c \in Channels |-> [i \in 1..MaxListens |->
                            IF i \in LiveLoops(c) /\ g_stop_polls[c][i] = "running"
                            THEN "0" ELSE g_stop_polls[c][i]]]
    /\ UNCHANGED poll_threads
    /\ ListenFrame

ListenStep ==
    /\ prog = ListenProg
    /\ \/ \E c \in Channels : Listen(c)
       \/ \E c \in Channels, i \in 1..MaxListens : PollTest(c, i)
       \/ \E c \in Channels, i \in 1..MaxListens : PollBody(c, i)
       \/ stop_listeners

----------------------------------------------------------------------------
(* A call of NavigationSystem.get_navigation_instruction                    *)
(* (navigation_system.py).  The two points lie on the line of the other     *)
(* positions, so their distance is the difference of their arc lengths.     *)

InstrProg == "get_navigation_instruction"

VeryCloseRadius == 50
ArrivedRadius == 10

\* the positions of the user and of the destination
NavPositions == {0, 5, 9, 10, 11, 30, 49, 50, 51, 999, 1000, 1060}

\* the instruction returned for a distance:
\*   "head":       f"Head {bearing} for {distance_str} to reach your destination."
\*   "very_close": f"You are very close to your destination, about {int(distance)} meters away."
\*   "arrived":    "You have arrived at your destination."
\* the `if distance < 50` is tested first and the `elif distance < 10` only
\* when it fails
InstructionFor(distance) ==
    IF distance < VeryCloseRadius THEN "very_close"
    ELSE IF distance < ArrivedRadius THEN "arrived"
    ELSE "head"

\* `if not self.current_location or not self.destination: return None`
get_navigation_instruction(current_location, destination) ==
    IF current_location = NoLocation \/ destination = NoLocation THEN None
    ELSE InstructionFor(calculate_distance(current_location, destination))

InstrCall ==
    /\ prog = InstrProg
    /\ ni_result = "not called"
    /\ ni_result' = get_navigation_instruction(ni_current_location, ni_destination)
    /\ UNCHANGED <<prog, relay_location, routerVars, liveVars, sessionObs, relayObs, callObs,
                   clientVars, busVars, lifeVars, statusVars, inflight, stepVars, opVars,
                   msgVars, startVars, listenVars, serverVars,
                   ni_current_location, ni_destination>>

----------------------------------------------------------------------------
(* GPSServer (gps_server.py): the POST and GET handlers of /location, each  *)
(* request served by a thread of its own.  A JSON value is its kind and,    *)
(* for a number or a string that float() accepts, the number it stands for. *)

ServerProg == "GPSServer"

Handlers == {"h1", "h2"}

Num(n) == [kind |-> "number", num |-> n]
NumericString(n) == [kind |-> "numeric_string", num |-> n]
Text == [kind |-> "text", num |-> 0]
Null == [kind |-> "null", num |-> 0]

\* float(v) succeeds (it raises ValueError on other strings, TypeError on None)
IsNumeric(v) == v.kind \in {"number", "numeric_string"}
\* float(v): a number stays what it is, a numeric string becomes its number
float(v) == Num(v.num)

\* time.time() of the server
Now == Num(3)

\* the request bodies: objects with the keys they hold, and the empty object
Body(keys, latitude, longitude, timestamp) ==
    [keys |-> keys, latitude |-> latitude, longitude |-> longitude, timestamp |-> timestamp]
AllKeys == {"latitude", "longitude", "timestamp"}
PostBodies ==
    {Body(AllKeys, Num(1), Num(1), Num(1)),
     Body(AllKeys, Num(2), Num(2), Num(2)),
     Body(AllKeys, NumericString(1), Num(2), Num(0)),
     Body({"latitude", "longitude"}, Num(2), Num(1), Null),
     Body(AllKeys, Num(1), Num(2), Null),
     Body(AllKeys, Num(2), Num(2), Text),
     Body(AllKeys, Text, Num(1), Num(1)),
     Body(AllKeys, Num(1), Text, Num(1)),
     Body(AllKeys, Num(1), Null, Num(2)),
     Body({"longitude", "timestamp"}, Null, Num(1), Num(1)),
     Body({"latitude", "timestamp"}, Num(1), Null, Num(1)),
     Body({}, Null, Null, Null)}
NoBody == Body({}, Null, Null, Null)

\* the stored location and a response body
NoStored == [latitude |-> Null, longitude |-> Null]
NoResponse == [latitude |-> Null, longitude |-> Null, timestamp |-> Null]

IdleHandler == [kind |-> "none", pc |-> "idle", body |-> NoBody, status |-> 0,
                response |-> NoResponse]

\* `if not data or 'latitude' not in data or 'longitude' not in data`
WellFormed(data) == data.keys # {} /\ "latitude" \in data.keys /\ "longitude" \in data.keys

\* a handler that converts the latitude alone before it stores
Convertible_latitude_only(data) == IsNumeric(data.latitude)

\* lat = float(data['latitude']); lon = float(data['longitude']) both return
Convertible(data) == IsNumeric(data.latitude) /\ IsNumeric(data.longitude)

\* data.get('timestamp', time.time())
TimestampOf(data) == IF "timestamp" \in data.keys THEN data.timestamp ELSE Now

\* bool(self.last_update)
Truthy(v) == \/ v.kind = "number" /\ v.num # 0
             \/ v.kind \in {"numeric_string", "text"}

\* `time.time() - self.last_update if self.last_update else None` returns
\* (the subtraction raises TypeError on a string)
AgeComputable(last_update) == Truthy(last_update) => last_update.kind = "number"

ServerFrame ==
    UNCHANGED <<prog, relay_location, routerVars, liveVars, sessionObs, relayObs, callObs,
                clientVars, busVars, lifeVars, statusVars, inflight, stepVars, opVars,
                msgVars, startVars, listenVars, instrVars>>

Respond(h, status, response) ==
    handlers' = [handlers EXCEPT ![h].pc = "responded", ![h].status = status,
                                 ![h].response = response]

\* a request arrives and a thread starts to serve it
Receive(h, kind, data) ==
    /\ prog = ServerProg
    /\ handlers[h].pc \in {"idle", "responded"}
    /\ handlers' = [handlers EXCEPT ![h] = [kind |-> kind, pc |-> "received",
                                            body |-> IF kind = "POST" THEN data ELSE NoBody,
                                            status |-> 0, response |-> NoResponse]]
    /\ UNCHANGED <<srv_current_location, srv_last_update, srv_lock, g_posted>>
    /\ ServerFrame

\* receive_location up to `with self.lock:`: 400 for a body without the two
\* keys, 500 when a float() raises
PostCheck(h) ==
    /\ prog = ServerProg
    /\ handlers[h].kind = "POST" /\ handlers[h].pc = "received"
    /\ IF ~WellFormed(handlers[h].body) THEN Respond(h, 400, NoResponse)
       ELSE IF ~Convertible(handlers[h].body) THEN Respond(h, 500, NoResponse)
       ELSE handlers' = [handlers EXCEPT ![h].pc = "acquire"]
    /\ UNCHANGED <<srv_current_location, srv_last_update, srv_lock, g_posted>>
    /\ ServerFrame

\* `with self.lock:` can be entered
LockFree == srv_lock = None

\* `with self.lock:` is entered
Acquire(h) ==
    /\ prog = ServerProg
    /\ handlers[h].pc = "acquire"
    /\ LockFree
    /\ srv_lock' = h
    /\ handlers' = [handlers EXCEPT ![h].pc = "locked"]
    /\ UNCHANGED <<srv_current_location, srv_last_update, g_posted>>
    /\ ServerFrame

\* self.current_location = (lat, lon)
PostStoreLocation(h) ==
    /\ prog = ServerProg
    /\ handlers[h].kind = "POST" /\ handlers[h].pc = "locked"
    /\ srv_current_location' = [latitude |-> float(handlers[h].body.latitude),
                                longitude |-> float(handlers[h].body.longitude)]
    /\ handlers' = [handlers EXCEPT ![h].pc = "store_update"]
    /\ UNCHANGED <<srv_last_update, srv_lock, g_posted>>
    /\ ServerFrame

\* self.last_update = timestamp; the lock is left; 200
PostStoreUpdate(h) ==
    /\ prog = ServerProg
    /\ handlers[h].kind = "POST" /\ handlers[h].pc = "store_update"
    /\ srv_last_update' = TimestampOf(handlers[h].body)
    /\ srv_lock' = None
    /\ g_posted' = TRUE
    /\ Respond(h, 200, NoResponse)
    /\ UNCHANGED srv_current_location
    /\ ServerFrame

\* get_location: a GET goes straight to `with self.lock:`
GetEnter(h) ==
    /\ prog = ServerProg
    /\ handlers[h].kind = "GET" /\ handlers[h].pc = "received"
    /\ handlers' = [handlers EXCEPT ![h].pc = "acquire"]
    /\ UNCHANGED <<srv_current_location, srv_last_update, srv_lock, g_posted>>
    /\ ServerFrame

\* the body of get_location inside the lock: 404 without a location, 500
\* when age_seconds cannot be computed, else the stored values
GetRead(h) ==
    /\ prog = ServerProg
    /\ handlers[h].kind = "GET" /\ handlers[h].pc = "locked"
    /\ IF srv_current_location = NoStored THEN Respond(h, 404, NoResponse)
       ELSE IF ~AgeComputable(srv_last_update) THEN Respond(h, 500, NoResponse)
       ELSE Respond(h, 200, [latitude |-> srv_current_location.latitude,
                             longitude |-> srv_current_location.longitude,
                             timestamp |-> srv_last_update])
    /\ srv_lock' = None
    /\ UNCHANGED <<srv_current_location, srv_last_update, g_posted>>
    /\ ServerFrame

ServerStep ==
    /\ prog = ServerProg
    /\ \/ \E h \in Handlers, data \in PostBodies : Receive(h, "POST", data)
       \/ \E h \in Handlers : Receive(h, "GET", NoBody)
       \/ \E h \in Handlers : PostCheck(h)
       \/ \E h \in Handlers : Acquire(h)
       \/ \E h \in Handlers : PostStoreLocation(h)
       \/ \E h \in Handlers : PostStoreUpdate(h)
       \/ \E h \in Handlers : GetEnter(h)
       \/ \E h \in Handlers : GetRead(h)

----------------------------------------------------------------------------
(* Specifications *)

\* the entry points of the navigation session and of the command channel
Progs == {"router", "pi_router", "live", "subscribe", "laptop_cmd", "enhanced_cmd",
          "enhanced_loc", "laptop_loc"}

\* the entry points of the device objects, their handlers and their functions
UnitProgs == {"FirebaseClient", "find_current_step", StartProg, ListenProg, InstrProg,
              ServerProg}
                 \cup DeviceProgs \cup RequestProgs \cup ProcessProgs

\* the value of a field of an object the entry point does not drive
NotDriven == "<not driven>"

SessionInit ==
    /\ relay_location = NoLocation
    /\ current_destination = None
    /\ current_route = NoRoute
    /\ current_step = 0
    /\ last_location = NoLocation
    /\ lpc = "tick" /\ l_loc = NoLocation /\ l_steps = <<>> /\ l_idx = 0
    /\ mpc = "menu" /\ m_dest = None /\ m_steps = <<>>
    /\ live_pc = "init" /\ last_spoken_step = -1 /\ live_step_idx = 0
    /\ g_session = 0 /\ g_status = "Idle"
    /\ g_last_idx = -1 /\ g_prev_idx = -1
    /\ g_emitted = FALSE /\ g_near = FALSE /\ g_lookup_ok = TRUE
    /\ g_spoken = {} /\ g_respoken = FALSE
    /\ g_end_ann = 0
    /\ g_reads = 0 /\ g_handed = 0
    /\ g_start_result = "none" /\ g_fix_after_end = FALSE /\ g_nav_handed = 0
    /\ relay_command = NoMsg /\ sub_last_data = NoMsg
    /\ last_processed_command = NoCommandId
    /\ listening = TRUE /\ listen_pc = "polling"
    /\ g_delivered = {} /\ g_dup = FALSE
    /\ g_pub_count = 0 /\ g_del_count = 0 /\ g_last_del_idx = 0 /\ g_recovery = "none"
    /\ last_sent_location = NoLocation /\ location_failures = 0 /\ sleep_for = 0
    /\ self_current_location = NoLocation /\ g_publish = "none"
    /\ g_run = 0 /\ g_last_ok = NoLocation /\ g_bad_publish = FALSE

DeviceObjectsInit ==
    /\ config \in IF prog \in DeviceProgs THEN Configs
                   ELSE IF prog = "FirebaseClient" THEN {DefaultConfig, ConfiguredConfig}
                   ELSE {ConfiguredConfig}
    /\ is_connected = is_configured(config)
    /\ is_running = FALSE /\ dev_pc = "init"
    /\ threads = [t \in ThreadNames |-> "absent"] /\ g_joined = {}
    /\ relay_router_status = NoMsg /\ relay_client_status = NoMsg
    /\ inflight = [t \in RequestThreads |-> None]
    /\ fs_location \in IF prog = "find_current_step" THEN 0..MaxCoord ELSE {0}
    /\ fs_steps \in IF prog = "find_current_step" THEN StepInputs ELSE {<<>>}
    /\ fs_result = NotComputed
    /\ op_name = "none" /\ op_return = "none"
    /\ in_command = NoCommand /\ in_location = NoLocationData
    /\ g_said = Silent /\ proc_pc = "polling"
    /\ sn_pc = "store" /\ sn_timestamp = 0
    /\ listeners = {}
    /\ poll_threads = [c \in Channels |-> [i \in 1..MaxListens |-> "absent"]]
    /\ g_stop_polls = [c \in Channels |-> [i \in 1..MaxListens |-> "running"]]
    /\ ni_current_location \in IF prog = InstrProg THEN NavPositions \cup {NoLocation}
                                ELSE {NoLocation}
    /\ ni_destination \in IF prog = InstrProg THEN NavPositions \cup {NoLocation}
                           ELSE {NoLocation}
    /\ ni_result = "not called"
    /\ srv_current_location = NoStored /\ srv_last_update = Null /\ srv_lock = None
    /\ handlers = [h \in Handlers |-> IdleHandler]
    /\ g_posted = FALSE

\* the session and channel entry points leave the device objects' own fields
\* alone
DeviceObjectsIdle ==
    /\ config = NotDriven
    /\ is_connected = TRUE
    /\ is_running = FALSE /\ dev_pc = "init"
    /\ threads = NotDriven /\ g_joined = {}
    /\ relay_router_status = NoMsg /\ relay_client_status = NoMsg
    /\ inflight = NotDriven
    /\ fs_location = 0 /\ fs_steps = <<>> /\ fs_result = NotComputed
    /\ op_name = "none" /\ op_return = "none"
    /\ in_command = NotDriven /\ in_location = NotDriven
    /\ g_said = NotDriven /\ proc_pc = "polling"
    /\ sn_pc = "store" /\ sn_timestamp = 0
    /\ listeners = {} /\ poll_threads = NotDriven /\ g_stop_polls = NotDriven
    /\ ni_current_location = NoLocation /\ ni_destination = NoLocation
    /\ ni_result = "not called"
    /\ srv_current_location = NotDriven /\ srv_last_update = NotDriven /\ srv_lock = None
    /\ handlers = NotDriven /\ g_posted = FALSE

Init == prog \in Progs /\ SessionInit /\ DeviceObjectsIdle

UnitInit == prog \in UnitProgs /\ SessionInit /\ DeviceObjectsInit

Publish == \E fix \in Fixes : ClientPublish(fix)

\* the router's two threads (location thread, main thread) interleave at
\* every step; the live loop is a single thread
Next ==
    \/ Publish
    \/ LocStep
    \/ MainStep
    \/ LiveStep
    \/ BusStep
    \/ ClientStep

Spec == Init /\ [][Next]_vars

\* the same program with every router handler run to completion before
\* another one starts
NextSerial ==
    \/ Publish
    \/ MainIdle /\ \E ok \in BOOLEAN : LocPoll(ok)
    \/ MainIdle /\ LocNavEnter
    \/ MainIdle /\ LocCompare
    \/ MainIdle /\ LocSay
    \/ MainIdle /\ \E ok \in BOOLEAN : LocCoords(ok)
    \/ MainIdle /\ LocArrive
    \/ MainIdle /\ LocStop
    \/ LocIdle /\ \E d \in Dests, geo_ok \in BOOLEAN, route_ok \in BOOLEAN :
                      MainStart(d, geo_ok, route_ok)
    \/ LocIdle /\ MainStoreDest
    \/ LocIdle /\ MainStoreRoute
    \/ LocIdle /\ MainStoreStep
    \/ LocIdle /\ MainAnnounce
    \/ LocIdle /\ MainStopCheck
    \/ LocIdle /\ MainStop
    \/ LocIdle /\ MainSayStopped
    \/ LiveStep
    \/ BusStep
    \/ ClientStep

SpecSerial == Init /\ [][NextSerial]_vars

\* the command channel alone, its polling thread being scheduled again and
\* again and its get succeeding again and again
BusInit == Init /\ prog \in CommandProgs
SpecBus == BusInit /\ [][BusStep]_vars /\ WF_vars(SubPoll(TRUE))

\* the location loops of the laptop clients alone
ClientProgs == {"enhanced_loc", "laptop_loc"}
ClientInit == Init /\ prog \in ClientProgs
SpecClient == ClientInit /\ [][ClientStep]_vars

\* start_navigation next to a client whose command loop is scheduled again
\* and again and whose get succeeds again and again
StartInit == UnitInit /\ prog = StartProg
SpecStart == StartInit /\ [][StartStep]_vars /\ WF_vars(EnhancedCommandPoll(TRUE))

\* the listeners of a FirebaseClient, started and stopped in any order
ListenInit == UnitInit /\ prog = ListenProg
SpecListen == ListenInit /\ [][ListenStep]_vars

\* get_navigation_instruction applied to every pair of positions
InstrInit == UnitInit /\ prog = InstrProg
SpecInstr == InstrInit /\ [][InstrCall]_vars

\* the GPS server under any sequence of concurrent requests
ServerInit == UnitInit /\ prog = ServerProg
SpecServer == ServerInit /\ [][ServerStep]_vars

\* the operations of FirebaseClient, called one after another
FirebaseInit == UnitInit /\ prog = "FirebaseClient"
SpecFirebase == FirebaseInit /\ [][FirebaseStep]_vars

\* one device object from construction to the end of stop_..., and the
\* requests of a device's threads
DeviceInit == UnitInit /\ prog \in DeviceProgs \cup RequestProgs
SpecDevice == DeviceInit /\ [][DeviceStep \/ RequestStep]_vars

\* find_current_step applied to every position and route within the bounds
FindStepInit == UnitInit /\ prog = "find_current_step"
SpecFindStep == FindStepInit /\ [][FindStepCall]_vars

\* the message handlers applied to every message within the bounds
ProcessInit == UnitInit /\ prog \in ProcessProgs
SpecProcess == ProcessInit /\ [][ProcessStep]_vars

----------------------------------------------------------------------------
(* Claims *)

\* the location thread is inside _process_navigation
InProcessNavigation == lpc \in {"nav", "cmp", "say", "coords", "arrive", "stop"}
\* the main thread is inside start_navigation, past its guards
InStartNavigation == mpc \in {"store_dest", "store_route", "store_step", "announce"}
\* every handler has returned
Quiescent == LocIdle /\ MainIdle

\* C1 (speak-once law): when two fixes processed in succession within one
\* session (no start or stop in between) map to the same nearest step, the
\* second one makes the router emit nothing: a fix that emits maps to another
\* step than the fix before it.
C1_SpeakOnceLaw == (g_emitted /\ g_last_idx # -1) => g_last_idx # g_prev_idx

\* the router has processed a second fix on the step it already announced,
\* silently
C1_Witness ==
    /\ prog = "router" /\ Quiescent
    /\ g_last_idx # -1 /\ g_prev_idx = g_last_idx
    /\ g_last_idx \in g_spoken /\ ~g_emitted

\* C2: once a fix less than 20 m from the destination has been processed in
\* an active session (its destination lookups succeeding), the session has
\* ended as Arrived, whatever the current step and the nearest step are.
C2_ArrivalAlways == (Quiescent /\ g_near /\ g_lookup_ok) => g_status = "Arrived"

\* C4 (speak-once per session): no step's instruction is emitted a second
\* time within one session.
C4_SpeakOncePerSession == ~g_respoken

C9_EndAnnouncedOnce ==
    /\ g_end_ann <= 1
    /\ (Quiescent /\ g_status \in {"Arrived", "Stopped"}) => g_end_ann = 1

\* C10 (single writer): _process_navigation never runs while start_navigation
\* is storing a session, and it never sees a destination paired with the route
\* of another destination.
C10_SingleWriter ==
    /\ ~(InProcessNavigation /\ InStartNavigation)
    /\ (InProcessNavigation /\ HasActiveNavigation) => current_route.to = current_destination

\* C3: a subscription never hands the same (type, timestamp) identity to its
\* callback twice, whatever values the relay takes between the polls.
C3_SubscribeOncePerIdentity == prog = "subscribe" => ~g_dup

\* C5: the client command task dispatches a (type, timestamp) identity at
\* most once; a poll that finds the relay unchanged dispatches nothing.
C5_DispatchOncePerIdentity == prog \in {"laptop_cmd", "enhanced_cmd"} => ~g_dup

\* C7: the client location task publishes a fix only when no position has
\* been sent yet or the fix is more than 10 m from the last successfully sent
\* position (so of two consecutive fixes 3 m apart only the first is
\* published).
C7_PublishOnlyOnMovement == ~g_bad_publish

\* C8: the location task sleeps the 30 s back-off interval exactly when more
\* than 5 consecutive ticks have obtained no fix; a tick that obtains a fix
\* ends the run of failures and is followed by the normal interval.
C8_BackoffExactly ==
    prog = "enhanced_loc" => ((sleep_for = BackoffInterval) <=> (g_run > FailureLimit))

\* C11: within one session the last-announced step index never decreases
\* from one processed fix to the next (main.py: last_spoken_step; router:
\* current_step, stored just before the instruction is spoken).
C11_AnnouncedStepNeverDecreases ==
    [][ /\ (prog = "live" /\ live_pc = "loop" /\ live_pc' = "loop")
            => last_spoken_step' >= last_spoken_step
        /\ (prog = "router" /\ lpc = "cmp" /\ lpc' = "say")
            => current_step' >= current_step ]_vars

\* C12: whenever a session is active and every handler has returned, the
\* current step index is a valid index into the steps of the session's route,
\* a route without steps included.
C12_StepIndexValid ==
    (prog = "router" /\ Quiescent /\ HasActiveNavigation)
        => (0 <= current_step /\ current_step < Len(current_route.steps))

\* the status of the session as the code's state shows it: Routing while
\* start_navigation holds a fetched route it has not stored yet
Status == IF mpc = "store_dest" THEN "Routing" ELSE g_status

\* the order Idle -> Routing -> Navigating -> {Arrived, Stopped}, with
\* Idle -> Stopped; a new session starts once the previous one has ended
StatusOrder ==
    { <<"Idle", "Routing">>, <<"Routing", "Navigating">>,
      <<"Navigating", "Arrived">>, <<"Navigating", "Stopped">>, <<"Idle", "Stopped">>,
      <<"Arrived", "Routing">>, <<"Stopped", "Routing">> }

\* C13: the session status only moves along the status order; no call of
\* start_navigation, location update or stop makes it skip a state or go back.
C13_StatusOrder ==
    [][(prog = "router" /\ Status' # Status) => <<Status, Status'>> \in StatusOrder]_vars

\* C14: start_navigation called while a session is navigating does not
\* replace the active destination, route or step index.
C14_NoStartWhileNavigating ==
    [][(prog = "router" /\ g_status = "Navigating" /\ mpc = "store_dest")
          => UNCHANGED <<current_destination, current_route, current_step>>]_vars

\* C15: when a successful start_navigation returns, the current step is 0,
\* the destination and its fetched route are stored, and the instruction of
\* step 0 is the first and only instruction emitted so far in the session.
C15_StartAnnouncesStepZero ==
    [][(prog = "router" /\ mpc = "announce" /\ mpc' = "menu")
          => /\ current_step' = 0
             /\ current_destination' = m_dest
             /\ current_route' = RouteTo(m_dest)
             /\ Len(m_steps) > 0 => (g_spoken = {} /\ g_spoken' = {0})]_vars

\* C16: a start_navigation call that fails on the geocode or on the route
\* leaves destination, route and current step as they were and announces the
\* failure to the user.
C16_FailedStartAnnounced ==
    [][(g_start_result' # g_start_result
          /\ g_start_result' \in {"failed_announced", "failed_silent"})
          => /\ UNCHANGED <<current_destination, current_route, current_step>>
             /\ g_start_result' = "failed_announced"]_vars

\* C17: once a session has ended, by stop or by arrival, a fix polled before
\* a later start_navigation stores its session is not passed to navigation
\* processing, so it emits no instruction; the live loop has left its loop.
C17_ReleasedSessionSilent ==
    [][ /\ (prog \in RouterProgs /\ SessionReleased /\ lpc = "tick") => lpc' = "tick"
        /\ (prog = "live" /\ g_status \in {"Arrived", "Stopped"})
              => (live_pc = "done" /\ live_pc' = "done") ]_vars

\* a fix was handed to the router's location processing after the session
\* ended, and nothing was emitted for it
C17_Witness ==
    /\ prog \in RouterProgs /\ Quiescent
    /\ SessionReleased /\ g_fix_after_end /\ ~g_emitted
    /\ last_location # NoLocation /\ ~HasActiveNavigation

\* C18: the router's navigation processing is never invoked with a null
\* position, nor with a position message it was already invoked with on an
\* earlier tick (the client had no new fix to publish in between).
C18_NoNullNoStaleFix ==
    /\ InProcessNavigation => l_loc # NoLocation
    /\ g_nav_handed <= 1

\* the subscription has a relay value to deliver
NewValuePending == listening /\ IsNewData(relay_command, sub_last_data)

\* C19: a failed get never ends the subscription: its polling loop ends only
\* after the listener was stopped, and while the listener is not stopped a
\* new relay value is eventually delivered.
C19_PollingSurvivesErrors ==
    /\ [](prog = "subscribe" => (listen_pc = "exited" => ~listening))
    /\ (prog = "subscribe" /\ NewValuePending) ~> (~NewValuePending)

\* after a failed get the subscription, still polling, has delivered the
\* value the relay holds
C19_Witness ==
    /\ prog = "subscribe" /\ listening /\ listen_pc = "polling"
    /\ g_recovery = "recovered" /\ sub_last_data = relay_command

C21_StopJoinsEveryThread ==
    (prog \in DeviceProgs /\ dev_pc = "stopped") =>
        (~is_running /\ DeviceThreads(prog) \subseteq g_joined)

\* C22 (one request in flight per channel): no two threads of a device have
\* a request outstanding on the same relay channel at the same time.
C22_OneRequestPerChannel ==
    \A t1 \in RequestThreads, t2 \in RequestThreads :
        (t1 # t2 /\ inflight[t1] # None) => inflight[t1] # inflight[t2]

\* C23 (nearest step, lowest index on ties): for a route of N >= 1 steps,
\* find_current_step returns an index in [0, N) whose maneuver location is at
\* minimum distance from the position, and every step before it is strictly
\* farther away.
C23_LowestNearestStep ==
    (prog = "find_current_step" /\ fs_result # NotComputed /\ Len(fs_steps) >= 1) =>
        LET d(i) == calculate_distance(fs_location, fs_steps[i + 1])
        IN  /\ fs_result \in 0..(Len(fs_steps) - 1)
            /\ \A j \in 0..(Len(fs_steps) - 1) :
                   /\ d(fs_result) <= d(j)
                   /\ j < fs_result => d(j) > d(fs_result)

\* a call was answered for a route on which a later step is as near as the
\* returned one
C23_Witness ==
    /\ prog = "find_current_step" /\ fs_result # NotComputed
    /\ \E j \in 0..(Len(fs_steps) - 1) :
           /\ j > fs_result
           /\ calculate_distance(fs_location, fs_steps[j + 1])
                  = calculate_distance(fs_location, fs_steps[fs_result + 1])

\* C24 (no bus operation raises): whatever the relay does with the request
\* (answer, network failure, timeout, HTTP error, malformed answer) and
\* whether or not the client is ready, a send_... operation comes back with
\* True or False and a get_latest_... operation with a message or None; none
\* raises into its caller.
C24_BusOperationsReturn ==
    /\ op_name \in SendOps => op_return \in {"True", "False"}
    /\ op_name \in GetOps => op_return \in {"None", "message"}

\* a ready client's send has met a relay failure and has come back with False
C24_Witness ==
    prog = "FirebaseClient" /\ is_ready /\ op_name \in SendOps /\ op_return = "False"

\* the command has no type, a type the client does not know, or lacks a field
\* its type carries (navigation_start: destination and the latitude and
\* longitude of current_location; voice_command: text)
MalformedCommand(cmd) ==
    \/ "type" \notin cmd.keys
    \/ cmd.type \notin KnownTypes
    \/ /\ cmd.type = "navigation_start"
       /\ \/ "data" \notin cmd.keys
          \/ "destination" \notin cmd.data.keys
          \/ "current_location" \notin cmd.data.keys
          \/ ~({"latitude", "longitude"} \subseteq cmd.data.current_location)
    \/ /\ cmd.type = "voice_command"
       /\ ("data" \notin cmd.keys \/ "text" \notin cmd.data.keys)

\* C25 (malformed messages are dropped): a command read from the relay that
\* is malformed (no type, an unknown type, or without the fields of its type)
\* is not acted on: nothing is announced for it, and the loop that read it
\* goes on to its next poll.
C25_MalformedDropped ==
    /\ (prog \in CommandProcessors /\ proc_pc = "processed" /\ MalformedCommand(in_command))
           => g_said = Silent
    /\ prog \in ProcessProgs => proc_pc \in {"polling", "processed"}

\* C27 (voice command filter): when a client has processed a voice_command,
\* it has spoken the text verbatim, unless the text is empty or holds both
\* "test" and "firebase" (in any case of letters), and then it has spoken
\* nothing.
C27_VoiceCommandFilter ==
    (prog \in CommandProcessors /\ proc_pc = "processed"
        /\ "type" \in in_command.keys /\ in_command.type = "voice_command"
        /\ "data" \in in_command.keys /\ "text" \in in_command.data.keys) =>
        LET text == in_command.data.text
        IN  g_said = IF text = <<>> \/ (Contains(str_test, lower(text))
                                          /\ Contains(str_firebase, lower(text)))
                     THEN Silent
                     ELSE Said("text", text, None)

\* C26 (unconfigured relay is fatal at start): when the relay is not
\* configured (the configuration holds no relay URL of the user's: databaseURL
\* is missing or left at its default), start_client / start_router has failed: the bus client is not
\* ready, is_running is False, no background thread was started and nothing
\* was written to the relay.
C26_UnconfiguredStartFails ==
    (prog \in DeviceProgs /\ ~RelayReachable /\ dev_pc # "init") =>
        /\ dev_pc = "start_failed"
        /\ ~is_ready /\ ~is_running
        /\ \A t \in ThreadNames : threads[t] = "absent"
        /\ relay_router_status = NoMsg /\ relay_client_status = NoMsg

\* C28 (channels are independent): a call of send_location_update changes
\* at most /user/location, a call of send_command, send_navigation_command
\* or send_voice_command at most /user/command, and a call of
\* send_status_update at most one of /system/router and /system/client; every
\* other channel keeps its value.
C28_ChannelsIndependent ==
    [][prog = "FirebaseClient" =>
          /\ op_name' = "send_location_update" =>
                 UNCHANGED <<relay_command, relay_router_status, relay_client_status>>
          /\ op_name' \in {"send_command", "send_navigation_command", "send_voice_command"} =>
                 UNCHANGED <<relay_location, relay_router_status, relay_client_status>>
          /\ op_name' = "send_status_update" =>
                 /\ UNCHANGED <<relay_location, relay_command>>
                 /\ \/ UNCHANGED relay_router_status
                    \/ UNCHANGED relay_client_status
          /\ op_name' \in GetOps =>
                 UNCHANGED <<relay_location, relay_command, relay_router_status,
                             relay_client_status>>]_vars

\* a status update has been stored for the router while the location and
\* command channels hold values
C28_Witness ==
    /\ prog = "FirebaseClient" /\ op_name = "send_status_update" /\ op_return = "True"
    /\ relay_router_status # NoMsg /\ relay_router_status.payload = "stopped"
    /\ relay_location # NoLocation /\ relay_command # NoMsg

\* C29 (arrival comes first): while a fix that is less than 20 m from the
\* destination is being processed, no step instruction has been emitted for
\* it by the time the arrival test is made and the arrival is announced.
C29_ArrivalFirst ==
    (prog \in RouterProgs /\ g_near /\ lpc \in {"coords", "arrive"}) => ~g_emitted

C31_FailedPublishNotRecorded ==
    [][prog = "enhanced_loc" =>
          /\ g_publish' = "failed" =>
                /\ last_sent_location' = last_sent_location
                /\ last_sent_location' = g_last_ok'
          /\ (g_publish = "failed" /\ g_run' = 0) =>
                ((g_publish' # "skipped") <=>
                     (\/ g_last_ok = NoLocation
                      \/ calculate_distance(g_last_ok, self_current_location')
                             > MovementThreshold))]_vars

\* the publish of a fix more than 10 m from the sent position has failed, and
\* the sent position is still the one of the earlier, successful publish
C31_Witness ==
    /\ prog = "enhanced_loc" /\ g_publish = "failed"
    /\ last_sent_location # NoLocation /\ last_sent_location = g_last_ok
    /\ calculate_distance(last_sent_location, self_current_location) > MovementThreshold

\* C35: after every tick of the client location loop in which a fix was
\* obtained and the publish, if one was attempted, succeeded, the last
\* successfully sent position is within 10 m of that fix.
C35_SentWithinThreshold ==
    (prog = "enhanced_loc" /\ g_publish \in {"sent", "skipped"}) =>
        /\ g_last_ok # NoLocation
        /\ last_sent_location = g_last_ok
        /\ calculate_distance(g_last_ok, self_current_location) <= MovementThreshold

\* the fix is 10 m from the sent position and was not published
C35_Witness ==
    /\ prog = "enhanced_loc" /\ g_publish = "skipped"
    /\ g_last_ok = 0 /\ self_current_location = 10

\* C32: after PiRouter.start_navigation has returned True, a running client
\* that polls the command channel again and again eventually dispatches the
\* NAVIGATION_START message of that call.
C32_NavigationStartDispatched ==
    (prog = StartProg /\ sn_pc = "returned")
        ~> (<<"navigation_start", sn_timestamp>> \in g_delivered)

\* C33: for any interleaving of listen_for_commands /
\* listen_for_location_updates and stop_listeners calls, at most one polling
\* loop per channel is live at a time, and every loop started before a
\* stop_listeners call exits after at most one more poll.
C33_OneLoopPerChannel ==
    prog = ListenProg =>
        \A c \in Channels :
            /\ Cardinality(LiveLoops(c)) <= 1
            /\ \A i \in 1..MaxListens : g_stop_polls[c][i] # "2 or more"

\* C34: after stop_client / stop_router has published the "stopped" status
\* and closed the bus, no further write from that device reaches the relay,
\* whatever the background threads left behind by the join do.
C34_NoWriteAfterStop ==
    [][(prog \in DeviceProgs /\ dev_pc = "stopped") =>
          UNCHANGED <<relay_location, relay_command, relay_router_status,
                      relay_client_status>>]_vars

\* C36: the live navigation loop ends without a user interrupt if and only
\* if some obtained fix is less than 20 m from the destination: a loop that
\* has ended, and was not interrupted, has ended on such a fix, and such a fix
\* ends the loop.
C36_LiveLoopEndsOnArrival ==
    prog = "live" =>
        /\ (live_pc = "done" /\ g_session > 0 /\ g_status # "Stopped") => g_near
        /\ g_near => live_pc = "done"

\* C37: get_navigation_instruction returns "You have arrived at your
\* destination." whenever the current location is less than 10 m from the
\* destination, and the "very close" message only for distances from 10 m up
\* to 50 m.
C37_ArrivedWithinTen ==
    (/\ prog = InstrProg /\ ni_result # "not called"
     /\ ni_current_location # NoLocation /\ ni_destination # NoLocation) =>
        LET distance == calculate_distance(ni_current_location, ni_destination)
        IN  /\ distance < ArrivedRadius => ni_result = "arrived"
            /\ ni_result = "very_close" =>
                   (ArrivedRadius <= distance /\ distance < VeryCloseRadius)

\* the location and timestamp a POST with this body stores
StoredBy(data) ==
    [latitude |-> float(data.latitude), longitude |-> float(data.longitude),
     timestamp |-> TimestampOf(data)]

\* C38: on the GPS server, for any interleaving of concurrent POST and GET
\* /location requests, GET returns 404 exactly when no valid POST has
\* completed, and otherwise returns the latitude and longitude of one single
\* POST together with that same POST's timestamp.
C38_GetConsistent ==
    [][\A h \in Handlers :
          (/\ prog = ServerProg /\ handlers[h].kind = "GET"
           /\ handlers[h].pc = "locked" /\ handlers'[h].pc = "responded") =>
              /\ (handlers'[h].status = 404) <=> ~g_posted
              /\ handlers'[h].status # 404 =>
                    /\ handlers'[h].status = 200
                    /\ \E data \in PostBodies :
                          /\ WellFormed(data) /\ Convertible(data)
                          /\ handlers'[h].response = StoredBy(data)]_vars

\* a POST this claim calls rejected: latitude or longitude missing, or one of
\* them not a number
Rejected(data) ==
    \/ "latitude" \notin data.keys \/ "longitude" \notin data.keys
    \/ ~IsNumeric(data.latitude) \/ ~IsNumeric(data.longitude)

\* C39: on the GPS server, a POST /location that is rejected (missing
\* latitude or longitude, or a non-numeric value) leaves the stored location
\* and its timestamp exactly as they were: no step of its handler changes
\* them, and it is answered with an error status.
C39_RejectedPostStoresNothing ==
    [][\A h \in Handlers :
          (/\ prog = ServerProg /\ handlers[h].kind = "POST"
           /\ Rejected(handlers[h].body)
           /\ handlers[h].pc \notin {"idle", "responded"}
           /\ handlers'[h] # handlers[h]) =>
              /\ UNCHANGED <<srv_current_location, srv_last_update>>
              /\ handlers'[h].pc = "responded"
              /\ handlers'[h].status \in {400, 500}]_vars

\* a POST without a numeric longitude has been answered with an error while
\* the server holds the location and timestamp of an earlier POST
C39_Witness ==
    /\ prog = ServerProg /\ g_posted
    /\ \E h \in Handlers :
          /\ handlers[h].kind = "POST" /\ handlers[h].pc = "responded"
          /\ handlers[h].status = 500 /\ ~IsNumeric(handlers[h].body.longitude)
          /\ IsNumeric(handlers[h].body.latitude)
          /\ srv_current_location.latitude # float(handlers[h].body.latitude)

====
